---------------------------- MODULE Spec2Model ----------------------------
(***************************************************************************)
(* Model of the StockScreenerPro market-data acquisition and screening     *)
(* pipeline (src/stock_data.py, src/sample_data.py, src/app.py,            *)
(* src/utils.py).                                                          *)
(*                                                                         *)
(* Conventions                                                             *)
(*  - Python None for an optional value is the empty sequence <<>>, a      *)
(*    present value v is <<v>>.                                            *)
(*  - A float is an exact fraction <<num, den>>; comparisons of fractions  *)
(*    are exact (RatCmp).                                                  *)
(*  - A DataFrame is the sequence of its rows in row order.  A candle row  *)
(*    is [t |-> minutes since local midnight, v |-> Volume].               *)
(*  - One upstream call is an outcome [kind, rows]: kind "raise" is an     *)
(*    exception, kind "data" a returned frame (rows = <<>> is .empty).     *)
(*  - The display name carried beside each symbol takes part in no         *)
(*    decision of the pipeline and is left out of the rows.                *)
(***************************************************************************)
EXTENDS Integers, Sequences, FiniteSets, TLC

VARIABLES
    h_in,       \* get_history_with_fallback: the upstream's answers, one per attempt
    h_out,      \* get_history_with_fallback: <<>> before the call, <<[data, calls]>> after
    e_in,       \* fetch_volume_data_for_symbol: [symbol, prev, cur] (answers per attempt)
    e_out,      \* fetch_volume_data_for_symbol: <<>> before the call, <<[rec, ...]>> after
    MARKET_CAP_CACHE,   \* the shared market-cap cache [timestamp, market_caps]
    clock,      \* the time datetime.now() returns, in seconds
    c_call,     \* get_market_caps: <<>>, or <<the latest call: its arguments, what it found, what it returned>>
    c_resolved, \* history: normalized symbol -> the value the latest call that asked for it returned
    c_count,    \* history: the number of get_market_caps calls so far
    session,    \* st.session_state: [symbols, filtered_stocks, last_update_time, using_sample_data]
    cycle,      \* <<>>, or <<what the latest load_and_filter_stocks met and did>>
    b_total,    \* a batched run: the number of items (they are numbered 1..b_total)
    b_i,        \* a batched run: the loop variable i, the offset of the current batch
    b_phase,    \* a batched run: "loop" between batches, "map" inside executor.map
    b_pending,  \* a batched run: the submitted items no worker has taken yet, in order
    b_running,  \* a batched run: the items whose per-item call is in flight
    b_done,     \* a batched run: the items whose per-item call has returned
    r_cache,    \* racing runs: MARKET_CAP_CACHE['market_caps']
    r_hist,     \* racing runs: key -> the values the key has held, oldest first
    r_run,      \* racing runs: run -> [req, begun, snapshot, checked, vals, written]
    r_reads,    \* racing runs: the reads of cached values made so far
    SYMBOL_CACHE,   \* the shared symbol cache [timestamp, symbols]
    s_call,     \* get_nse_bse_symbols: <<>>, or <<the latest call: what it found, what it returned>>
    s_count,    \* history: the number of get_nse_bse_symbols calls so far
    n_in,       \* normalize_symbol: the symbol passed in first
    n_out,      \* normalize_symbol: the results of applying it again and again, in order
    m_in,       \* is_market_open: current_time as [weekday, time], time = <<hour, minute, second, microsecond>>
    m_out,      \* is_market_open: <<>> before the call, <<the returned Boolean>> after
    w_today,    \* previous-trading-day walk: the date of current_time_ist, as a day number
    w_sub,      \* previous-trading-day walk: days_to_subtract
    w_pc,       \* previous-trading-day walk: "start", "loop" (at the while test), "done"
    v_in,       \* get_volume_data: <<[symbols, hist]>>, the universe and the history answers it meets
    v_out       \* get_volume_data: <<>> before the call, <<what it returned>> after

histVars == <<h_in, h_out>>
evalVars == <<e_in, e_out>>
capsVars == <<MARKET_CAP_CACHE, clock, c_call, c_resolved, c_count>>
pipeVars == <<session, cycle>>
batchVars == <<b_total, b_i, b_phase, b_pending, b_running, b_done>>
raceVars == <<r_cache, r_hist, r_run, r_reads>>
symVars == <<SYMBOL_CACHE, s_call, s_count>>
normVars == <<n_in, n_out>>
marketVars == <<m_in, m_out>>
walkVars == <<w_today, w_sub, w_pc>>
volVars == <<v_in, v_out>>
unitVars == <<marketVars, walkVars, volVars>>
auxVars == <<batchVars, raceVars, symVars, normVars, unitVars>>
vars == <<histVars, evalVars, capsVars, pipeVars, auxVars>>

-----------------------------------------------------------------------------
(* Exact arithmetic on fractions of naturals *)

Min(a, b) == IF a <= b THEN a ELSE b

\* sign of a/b - c/d for a, c >= 0 and b, d >= 0 (x/0 is +infinity, as numpy's
\* float division gives); computed with quotients and remainders only, so no
\* product of two large numbers is formed
RECURSIVE RatCmp(_, _, _, _)
RatCmp(a, b, c, d) ==
    IF b = 0 \/ d = 0
    THEN (IF b = 0 /\ d = 0 THEN 0 ELSE IF b = 0 THEN 1 ELSE -1)
    ELSE LET qa == a \div b
             qc == c \div d
             ra == a % b
             rc == c % d
         IN  IF qa # qc THEN (IF qa < qc THEN -1 ELSE 1)
             ELSE IF ra = 0 /\ rc = 0 THEN 0
             ELSE IF ra = 0 THEN -1
             ELSE IF rc = 0 THEN 1
             ELSE RatCmp(d, rc, b, ra)

RatEq(x, y)  == RatCmp(x[1], x[2], y[1], y[2]) = 0
RatLeq(x, y) == RatCmp(x[1], x[2], y[1], y[2]) <= 0
RatLt(x, y)  == RatCmp(x[1], x[2], y[1], y[2]) < 0

\* x / y for fractions x, y
RatDiv(x, y) == <<x[1] * y[2], x[2] * y[1]>>

RECURSIVE SumVolume(_)
SumVolume(rows) ==
    IF rows = <<>> THEN 0 ELSE rows[1].v + SumVolume(Tail(rows))

Head10(rows, n) == SubSeq(rows, 1, Min(n, Len(rows)))

-----------------------------------------------------------------------------
(* Symbol tables: src/stock_data.py *)

SYMBOL_MAPPINGMutant ==
    ("ULTRACEM.NS" :> "ULTRACEMCO.NS") @@ ("ULTRACEMCO.NS" :> "ULTRACEM.NS")
        @@ ("NTPC.NS" :> "NTPC.NS") @@ ("TATASTEEL.NS" :> "TATASTEEL.NS")
SYMBOL_MAPPING ==
    ("ULTRACEM.NS" :> "ULTRACEMCO.NS") @@ ("NTPC.NS" :> "NTPC.NS")
        @@ ("TATASTEEL.NS" :> "TATASTEEL.NS")

normalize_symbol(symbol) ==
    IF symbol \in DOMAIN SYMBOL_MAPPING THEN SYMBOL_MAPPING[symbol] ELSE symbol

RELIABLE_SYMBOLS ==
    << "RELIANCE.NS", "TCS.NS", "HDFCBANK.NS", "INFY.NS",
       "ICICIBANK.NS", "HINDUNILVR.NS", "SBIN.NS", "BHARTIARTL.NS",
       "ITC.NS", "KOTAKBANK.NS", "LT.NS", "BAJFINANCE.NS",
       "AXISBANK.NS", "ASIANPAINT.NS", "MARUTI.NS", "TITAN.NS",
       "SUNPHARMA.NS", "ULTRACEMCO.NS", "TATASTEEL.NS", "NTPC.NS",
       "WIPRO.NS", "ONGC.NS", "POWERGRID.NS", "M&M.NS",
       "ADANIENT.NS", "HCLTECH.NS", "JSWSTEEL.NS", "TECHM.NS",
       "BAJAJFINSV.NS", "APOLLOHOSP.NS" >>

\* in crore
FALLBACK_MARKET_CAPS ==
    ("RELIANCE.NS" :> 18000) @@
    ("TCS.NS" :> 14000) @@
    ("HDFCBANK.NS" :> 12000) @@
    ("INFY.NS" :> 7000) @@
    ("ICICIBANK.NS" :> 7500) @@
    ("HINDUNILVR.NS" :> 6000) @@
    ("SBIN.NS" :> 6500) @@
    ("BHARTIARTL.NS" :> 6200) @@
    ("ITC.NS" :> 5500) @@
    ("KOTAKBANK.NS" :> 4200) @@
    ("LT.NS" :> 4000) @@
    ("BAJFINANCE.NS" :> 4500) @@
    ("AXISBANK.NS" :> 3200) @@
    ("ASIANPAINT.NS" :> 3000) @@
    ("MARUTI.NS" :> 3300) @@
    ("TITAN.NS" :> 2800) @@
    ("SUNPHARMA.NS" :> 2600) @@
    ("ULTRACEMCO.NS" :> 2500) @@
    ("TATASTEEL.NS" :> 2200) @@
    ("NTPC.NS" :> 2400) @@
    ("WIPRO.NS" :> 2100) @@
    ("ONGC.NS" :> 2300) @@
    ("POWERGRID.NS" :> 1800) @@
    ("M&M.NS" :> 1900) @@
    ("ADANIENT.NS" :> 4800) @@
    ("HCLTECH.NS" :> 1700) @@
    ("JSWSTEEL.NS" :> 1600) @@
    ("TECHM.NS" :> 1200) @@
    ("BAJAJFINSV.NS" :> 2700) @@
    ("APOLLOHOSP.NS" :> 1100)

-----------------------------------------------------------------------------
(* Symbol Directory: get_nse_bse_symbols *)

\* lines 136-144: the universe built from the reliable symbols, as the list
\* of its keys in insertion order
nse_symbols == [i \in 1..Len(RELIABLE_SYMBOLS) |-> normalize_symbol(RELIABLE_SYMBOLS[i])]

\* lines 156-161
minimal_symbols == <<"RELIANCE.NS", "TCS.NS", "HDFCBANK.NS", "INFY.NS">>

SymbolTtlSeconds == 86400

\* lines 129-131
SymbolCacheFreshMutant(cache, now) ==
    cache.timestamp # <<>> /\ cache.symbols # <<>>
SymbolCacheFresh(cache, now) ==
    /\ cache.timestamp # <<>>
    /\ now - cache.timestamp[1] < SymbolTtlSeconds
    /\ cache.symbols # <<>>

\* where an exception may leave the try body of lines 134-151: nowhere, in
\* the loop of lines 139-144 (before the cache is written), or in the
\* logger.info call of line 150 (after it)
SymbolFaults == {"none", "build", "log"}

\* the whole function; universe is the returned mapping's keys, cache the
\* symbol cache as the call leaves it
get_nse_bse_symbols(cache, now, fault) ==
    IF SymbolCacheFresh(cache, now)
    THEN [universe |-> cache.symbols[1], cache |-> cache, raised |-> FALSE]
    ELSE IF fault = "none"
    THEN [universe |-> nse_symbols,
          cache |-> [timestamp |-> <<now>>, symbols |-> <<nse_symbols>>],
          raised |-> FALSE]
    ELSE [universe |-> minimal_symbols,
          cache |-> [timestamp |-> <<now>>, symbols |-> <<minimal_symbols>>],
          raised |-> FALSE]

-----------------------------------------------------------------------------
(* Historical Series Fetcher: get_history_with_fallback, is_valid_volume_data *)

max_retries == 3

\* one attempt's try body (lines 171-182): <<frame>> when ticker.history
\* returned a non-empty frame, <<>> when it returned an empty one or raised
\* (the except clause of lines 189-192 swallows the exception)
AttemptData(a) ==
    IF a.kind = "data" /\ a.rows # <<>> THEN <<a.rows>> ELSE <<>>

\* whether the attempt's exception leaves the function (it never does: the
\* except clause catches Exception)
AttemptEscapesMutant(a) == a.kind = "raise"
AttemptEscapes(a) == FALSE

\* the for-loop from attempt index `attempt` (0-based) on; answers[attempt + 1]
\* is what ticker.history does on that attempt.  After the last attempt the
\* result is the empty frame pd.DataFrame().
RECURSIVE HistoryLoop(_, _)
HistoryLoop(answers, attempt) ==
    IF attempt >= max_retries
    THEN [data |-> <<>>, calls |-> attempt, raised |-> FALSE]
    ELSE LET a == answers[attempt + 1]
         IN  IF AttemptEscapes(a)
             THEN [data |-> <<>>, calls |-> attempt + 1, raised |-> TRUE]
             ELSE IF AttemptData(a) # <<>>
             THEN [data |-> AttemptData(a)[1], calls |-> attempt + 1,
                   raised |-> FALSE]
             ELSE HistoryLoop(answers, attempt + 1)

get_history_with_fallback(answers) == HistoryLoop(answers, 0)

\* the frames of the model always carry a Volume column
VolumeFloor == 100

is_valid_volume_data(data) ==
    /\ data # <<>>
    /\ ~(SumVolume(data) < VolumeFloor)

-----------------------------------------------------------------------------
(* Volume Spike Evaluator: fetch_volume_data_for_symbol *)

Hour(t)   == t \div 60
Minute(t) == t % 60

market_open_hour   == 9
market_open_minute == 15
market_end_hour    == 11
market_end_minute  == 0

\* Method 1 (lines 257-262): the hour/minute mask of the opening window
InWindow(t) ==
    /\ \/ Hour(t) > market_open_hour
       \/ Hour(t) = market_open_hour /\ Minute(t) >= market_open_minute
    /\ \/ Hour(t) < market_end_hour
       \/ Hour(t) = market_end_hour /\ Minute(t) <= market_end_minute

\* Method 2 (line 274) on time_str = "HH:MM:00": the substring "09:" occurs
\* when HH or MM is 09, the substring "10:" when HH or MM is 10, and
\* int(time_str.split(':')[1][:2]) is MM
StringMatch(t) ==
    \/ (Hour(t) = 9 \/ Minute(t) = 9) /\ Minute(t) >= 15
    \/ Hour(t) = 10 \/ Minute(t) = 10

InWindowRow(row)    == InWindow(row.t)
StringMatchRow(row) == StringMatch(row.t)

BaselineSize == 10
MinBaseline  == 3

\* lines 253-284: Method 1, Method 2 when Method 1 kept nothing, then head(10)
FilteredCandles(prev_day_data) ==
    LET m1 == SelectSeq(prev_day_data, InWindowRow)
        m2 == IF m1 = <<>> THEN SelectSeq(prev_day_data, StringMatchRow) ELSE m1
    IN  Head10(m2, BaselineSize)

\* line 286: too few candles for an average
InsufficientBaseline(filtered_data) == Len(filtered_data) < MinBaseline

\* line 291: filtered_data['Volume'].mean(), as the fraction sum / count
MeanVolume(filtered_data) == <<SumVolume(filtered_data), Len(filtered_data)>>

\* line 292: avg_volume == 0
ZeroAverageMutant(avg_volume) == FALSE
ZeroAverage(avg_volume) == avg_volume[1] = 0

\* line 318: current_volume / avg_volume
SpikeRatioMutant(current_volume, avg_volume) ==
    <<current_volume * avg_volume[2] + 1, avg_volume[1]>>
SpikeRatio(current_volume, avg_volume) ==
    RatDiv(<<current_volume, 1>>, avg_volume)

\* lines 296-329, once the baseline is accepted
CurrentStage(normalized_symbol, avg_volume, current_day_data) ==
    IF ~is_valid_volume_data(current_day_data) THEN <<>>
    ELSE LET current_volume == current_day_data[Len(current_day_data)].v
         IN  IF current_volume <= 0 THEN <<>>
             ELSE <<[symbol |-> normalized_symbol,
                     current_volume |-> current_volume,
                     avg_volume_prev_day |-> avg_volume,
                     volume_spike_ratio |-> SpikeRatio(current_volume, avg_volume)]>>

\* the whole function: rec is <<>> (None) or <<VolumeRecord>>; prev_calls and
\* cur_calls count the upstream history calls it made
fetch_volume_data_for_symbol(symbol, prev_answers, cur_answers) ==
    LET normalized_symbol == normalize_symbol(symbol)
        prev == get_history_with_fallback(prev_answers)
        cur  == get_history_with_fallback(cur_answers)
        filtered_data == FilteredCandles(prev.data)
        avg_volume == MeanVolume(filtered_data)
        none == [rec |-> <<>>, prev_calls |-> prev.calls, cur_calls |-> 0]
    IN  IF prev.raised THEN none
        ELSE IF ~is_valid_volume_data(prev.data) THEN none
        ELSE IF InsufficientBaseline(filtered_data) THEN none
        ELSE IF ZeroAverage(avg_volume) THEN none
        ELSE [rec |-> IF cur.raised THEN <<>>
                      ELSE CurrentStage(normalized_symbol, avg_volume, cur.data),
              prev_calls |-> prev.calls, cur_calls |-> cur.calls]

-----------------------------------------------------------------------------
(* Degraded-mode data: src/sample_data.py *)

\* one row of get_sample_volume_data (lines 56-62): avg_volume is the
\* randint draw, spike_ratio the uniform draw kept to six decimals (as a
\* fraction over 1000000), current_volume is int(avg_volume * spike_ratio).
\* The ratio column is the draw itself, not current_volume / avg_volume.
SampleRow(symbol, avg_volume, current_volume, spike_ratio_micro) ==
    [symbol |-> symbol,
     current_volume |-> current_volume,
     avg_volume_prev_day |-> <<avg_volume, 1>>,
     volume_spike_ratio |-> <<spike_ratio_micro, 1000000>>]

\* the frame get_sample_volume_data builds under np.random.seed(42) (the
\* legacy MT19937 stream: randint(10000, 1000000), random(), uniform(...)),
\* one row per entry of get_sample_symbols, in its order
get_sample_volume_data ==
    << SampleRow("RELIANCE.NS", 131958, 283830, 2150913),
       SampleRow("TCS.NS", 654167, 1245643, 1904167),
       SampleRow("HDFCBANK.NS", 531430, 9917419, 18661761),
       SampleRow("INFY.NS", 185203, 3057494, 16508884),
       SampleRow("ICICIBANK.NS", 74820, 597960, 7991983),
       SampleRow("HINDUNILVR.NS", 786997, 15678645, 19922115),
       SampleRow("SBIN.NS", 224176, 1170828, 5222807),
       SampleRow("BHARTIARTL.NS", 268795, 4098518, 15247746),
       SampleRow("ITC.NS", 880910, 11382631, 12921446),
       SampleRow("KOTAKBANK.NS", 658143, 865759, 1315457),
       SampleRow("LT.NS", 963277, 14586272, 15142344),
       SampleRow("BAJFINANCE.NS", 565839, 4662209, 8239463),
       SampleRow("AXISBANK.NS", 575894, 6133568, 10650515),
       SampleRow("ASIANPAINT.NS", 675987, 3764973, 5569593),
       SampleRow("MARUTI.NS", 708361, 976864, 1379049),
       SampleRow("TITAN.NS", 658531, 4378817, 6649371),
       SampleRow("SUNPHARMA.NS", 582843, 471809, 809496),
       SampleRow("ULTRACEMCO.NS", 614365, 1314817, 2140124),
       SampleRow("ULTRACEM.NS", 815889, 1934860, 2371474),
       SampleRow("TATASTEEL.NS", 325139, 6403887, 19695846),
       SampleRow("NTPC.NS", 999913, 4055999, 4056352) >>

\* in crore
get_sample_market_caps ==
    ("RELIANCE.NS" :> 18000) @@
    ("TCS.NS" :> 14000) @@
    ("HDFCBANK.NS" :> 12000) @@
    ("INFY.NS" :> 7000) @@
    ("ICICIBANK.NS" :> 7500) @@
    ("HINDUNILVR.NS" :> 6000) @@
    ("SBIN.NS" :> 6500) @@
    ("BHARTIARTL.NS" :> 6200) @@
    ("ITC.NS" :> 5500) @@
    ("KOTAKBANK.NS" :> 4200) @@
    ("LT.NS" :> 4000) @@
    ("BAJFINANCE.NS" :> 4500) @@
    ("AXISBANK.NS" :> 3200) @@
    ("ASIANPAINT.NS" :> 3000) @@
    ("MARUTI.NS" :> 3300) @@
    ("TITAN.NS" :> 2800) @@
    ("SUNPHARMA.NS" :> 2600) @@
    ("ULTRACEMCO.NS" :> 2500) @@
    ("ULTRACEM.NS" :> 2500) @@
    ("TATASTEEL.NS" :> 2200) @@
    ("NTPC.NS" :> 2400)

-----------------------------------------------------------------------------
(* Market Cap Enricher: get_market_cap, get_market_caps *)

Put(f, k, v) == (k :> v) @@ f
Get(f, k, default) == IF k \in DOMAIN f THEN f[k] ELSE default
EmptyMap == [k \in {} |-> 0]

\* a quote lookup's answer: ticker.info raises, or info.get('marketCap', 0)
\* is cap, counted in units of 10,000,000 USD
QuoteRaise  == [kind |-> "raise", cap |-> 0]
Quote(cap)  == [kind |-> "data", cap |-> cap]

usd_to_inr == 83

\* lines 408-412: (cap * 10^7 * usd_to_inr) / 10^7 crore
ToCrore(cap) == cap * usd_to_inr

\* lines 398-421: the retry loop; cr stays 0 when no attempt gave a positive
\* market cap
RECURSIVE QuoteLoop(_, _)
QuoteLoop(answers, attempt) ==
    IF attempt >= max_retries
    THEN [cr |-> 0, calls |-> attempt]
    ELSE LET a == answers[attempt + 1]
         IN  IF a.kind = "data" /\ a.cap > 0
             THEN [cr |-> ToCrore(a.cap), calls |-> attempt + 1]
             ELSE QuoteLoop(answers, attempt + 1)

\* lines 390-391: the lookup in the shared map; it does not look at the
\* map's timestamp
CacheHit(normalized_symbol, shared_caps) == normalized_symbol \in DOMAIN shared_caps

\* line 424: the static table answers only when no attempt gave a positive
\* market cap
UseFallbackMutant(market_cap_cr, normalized_symbol) ==
    normalized_symbol \in DOMAIN FALLBACK_MARKET_CAPS
UseFallback(market_cap_cr, normalized_symbol) ==
    market_cap_cr <= 0 /\ normalized_symbol \in DOMAIN FALLBACK_MARKET_CAPS

\* lines 384-428; shared_caps is MARKET_CAP_CACHE['market_caps'] as the
\* worker finds it.  value is the return value, calls the quote lookups made.
get_market_cap(symbol, shared_caps, answers) ==
    LET normalized_symbol == normalize_symbol(symbol)
        live == QuoteLoop(answers, 0)
    IN  IF CacheHit(normalized_symbol, shared_caps)
        THEN [value |-> shared_caps[normalized_symbol], calls |-> 0]
        ELSE IF UseFallback(live.cr, normalized_symbol)
        THEN [value |-> FALLBACK_MARKET_CAPS[normalized_symbol], calls |-> live.calls]
        ELSE [value |-> live.cr, calls |-> live.calls]

CacheTtlSeconds == 3600

\* lines 449-452
cache_valid(cache, now) ==
    /\ cache.timestamp # <<>>
    /\ now - cache.timestamp[1] < CacheTtlSeconds

batch_size == 10

\* lines 364 and 493: min(1.0, (i + batch_size) / total)
BatchProgressMutant(i, total) == <<i, total>>
BatchProgress(i, total) ==
    IF i + batch_size >= total THEN <<1, 1>> ELSE <<i + batch_size, total>>

\* line 489
StoreInCacheMutant(shared_caps, symbol, market_cap) == shared_caps
StorePositiveMutant(shared_caps, symbol, market_cap) ==
    IF market_cap > 0 THEN Put(shared_caps, symbol, market_cap) ELSE shared_caps
StoreInCache(shared_caps, symbol, market_cap) == Put(shared_caps, symbol, market_cap)

\* lines 484-489: the zip loop over one batch's results
RECURSIVE CapZipLoop(_, _, _, _)
CapZipLoop(batch, batch_results, k, acc) ==
    IF k > Len(batch) THEN acc
    ELSE LET market_cap == batch_results[k].value
         IN  CapZipLoop(batch, batch_results, k + 1,
                 [acc EXCEPT
                    !.success_count = IF market_cap > 0 THEN @ + 1 ELSE @,
                    !.market_caps = Put(@, batch[k], market_cap),
                    !.shared = StoreInCache(@, batch[k], market_cap),
                    !.calls = Put(@, batch[k], Get(@, batch[k], 0) + batch_results[k].calls)])

\* lines 478-496: the batches, one after the other.  The workers of a batch
\* run get_market_cap against the shared map as it is while the batch runs;
\* the map is written after executor.map has returned.
RECURSIVE CapBatchLoop(_, _, _, _)
CapBatchLoop(symbols_to_fetch, i, world, acc) ==
    LET total_symbols == Len(symbols_to_fetch)
    IN  IF i >= total_symbols THEN acc
        ELSE LET batch == SubSeq(symbols_to_fetch, i + 1, Min(i + batch_size, total_symbols))
                 batch_results == [k \in 1..Len(batch) |->
                                     get_market_cap(batch[k], acc.shared, world[batch[k]])]
                 done == CapZipLoop(batch, batch_results, 1, acc)
             IN  CapBatchLoop(symbols_to_fetch, i + batch_size, world,
                     [done EXCEPT !.progress = Append(@, BatchProgress(i, total_symbols))])

MinLiveCaps     == 5
MinRequestedForSample == 10

\* lines 507-512: the backfill loop over the requested symbols
RECURSIVE BackfillLoop(_, _, _)
BackfillLoop(symbols, k, acc) ==
    IF k > Len(symbols) THEN acc
    ELSE LET normalized == normalize_symbol(symbols[k])
         IN  IF /\ normalized \in DOMAIN get_sample_market_caps
                /\ (normalized \notin DOMAIN acc.market_caps \/ acc.market_caps[normalized] <= 0)
             THEN BackfillLoop(symbols, k + 1,
                      [acc EXCEPT
                         !.market_caps = Put(@, normalized, get_sample_market_caps[normalized]),
                         !.shared = Put(@, normalized, get_sample_market_caps[normalized])])
             ELSE BackfillLoop(symbols, k + 1, acc)

SeqRange(q) == { q[i] : i \in 1..Len(q) }

\* line 470 and line 519: the requested symbols with their values
RequestedCaps(symbols, market_caps) ==
    [s \in SeqRange(symbols) |-> Get(market_caps, normalize_symbol(s), 0)]

\* the whole function.  cache is MARKET_CAP_CACHE, now is datetime.now(),
\* world[s] the quote answers for normalized symbol s.  The result holds the
\* returned frame (result), the cache as the call leaves it, the quote lookups
\* made per symbol (calls), the values handed to progress_callback (progress)
\* and whether the sample branch of lines 499-512 ran (sample_used).
get_market_caps(symbols, cache, now, world) ==
    LET valid == cache_valid(cache, now)
        market_caps0 == IF valid THEN cache.market_caps ELSE EmptyMap
        normalized_symbols == [i \in 1..Len(symbols) |-> normalize_symbol(symbols[i])]
        NotCached(s) == s \notin DOMAIN market_caps0
        symbols_to_fetch == SelectSeq(normalized_symbols, NotCached)
        acc0 == [market_caps |-> market_caps0, shared |-> cache.market_caps,
                 success_count |-> 0, calls |-> EmptyMap, progress |-> <<>>]
        fetched == CapBatchLoop(symbols_to_fetch, 0, world, acc0)
        sample == fetched.success_count < MinLiveCaps /\ Len(symbols) > MinRequestedForSample
        filled == IF sample THEN BackfillLoop(symbols, 1, fetched) ELSE fetched
    IN  IF symbols_to_fetch = <<>>
        THEN [result |-> RequestedCaps(symbols, market_caps0), cache |-> cache,
              calls |-> EmptyMap, progress |-> << <<1, 1>> >>, sample_used |-> FALSE,
              success_count |-> 0, fetched |-> <<>>]
        ELSE [result |-> RequestedCaps(symbols, filled.market_caps),
              cache |-> [timestamp |-> IF valid THEN cache.timestamp ELSE <<now>>,
                         market_caps |-> filled.shared],
              calls |-> filled.calls, progress |-> filled.progress,
              sample_used |-> sample, success_count |-> fetched.success_count,
              fetched |-> symbols_to_fetch]

-----------------------------------------------------------------------------
(* Batch Orchestrator, volume stage: get_volume_data *)

MinLiveRecords == 5

\* line 370: too few live records
UseSampleDataMutant(results) == Len(results) <= MinLiveRecords
UseSampleDataSomeMutant(results) == 0 < Len(results) /\ Len(results) < MinLiveRecords
UseSampleData(results) == Len(results) < MinLiveRecords

\* line 356: list(executor.map(fetch_volume_data_for_symbol, batch)), one
\* result per symbol of the batch, in the batch's order; a symbol whose
\* evaluation fails gives None (lines 331-333) and the others are unaffected
MapBatchMutant(batch, world) ==
    [k \in 1..Len(batch) |->
        IF \E j \in 1..(k - 1) :
              fetch_volume_data_for_symbol(batch[j], world[batch[j]].prev,
                                           world[batch[j]].cur).rec = <<>>
        THEN <<>>
        ELSE fetch_volume_data_for_symbol(batch[k], world[batch[k]].prev,
                                          world[batch[k]].cur).rec]
MapBatch(batch, world) ==
    [k \in 1..Len(batch) |->
        fetch_volume_data_for_symbol(batch[k], world[batch[k]].prev, world[batch[k]].cur).rec]

\* lines 352-367: the batches, one after the other; world[s] holds the
\* history answers for symbol s as [prev, cur].  executor.map returns the
\* results in submission order, and the None results are skipped.
RECURSIVE VolumeBatchLoop(_, _, _, _)
VolumeBatchLoop(symbols_list, i, world, acc) ==
    LET total_symbols == Len(symbols_list)
    IN  IF i >= total_symbols THEN acc
        ELSE LET batch == SubSeq(symbols_list, i + 1, Min(i + batch_size, total_symbols))
                 batch_results == MapBatch(batch, world)
                 Found(result) == result # <<>>
                 found == SelectSeq(batch_results, Found)
             IN  VolumeBatchLoop(symbols_list, i + batch_size, world,
                     [results |-> acc.results \o [k \in 1..Len(found) |-> found[k][1]],
                      per_item |-> acc.per_item \o batch_results,
                      progress |-> Append(acc.progress, BatchProgress(i, total_symbols))])

\* lines 373-374 and 502-503: the flag is written only when the session
\* already has the key
SetSampleFlag(using_sample_data) ==
    IF using_sample_data # <<>> THEN <<TRUE>> ELSE using_sample_data

\* the whole function: df is the returned frame, results the live records
\* collected, per_item what fetch_volume_data_for_symbol returned for each
\* symbol in order, progress the values handed to progress_callback, flag
\* the session's using_sample_data entry as the call leaves it
get_volume_data(symbols_list, world, using_sample_data) ==
    LET run == VolumeBatchLoop(symbols_list, 0, world,
                   [results |-> <<>>, per_item |-> <<>>, progress |-> <<>>])
    IN  IF UseSampleData(run.results)
        THEN [df |-> get_sample_volume_data, results |-> run.results,
              per_item |-> run.per_item,
              progress |-> run.progress, sample_used |-> TRUE,
              flag |-> SetSampleFlag(using_sample_data)]
        ELSE [df |-> run.results, results |-> run.results,
              per_item |-> run.per_item,
              progress |-> run.progress, sample_used |-> FALSE,
              flag |-> using_sample_data]

-----------------------------------------------------------------------------
(* Screening Filter and the refresh cycle: load_and_filter_stocks *)

MinSpikeRatio == 10
MinMarketCapCr == 1000
TopN == 10

\* line 71
SpikeKeepMutant(row) == RatLeq(<<MinSpikeRatio - 1, 1>>, row.volume_spike_ratio)
SpikeKeep(row) == RatLeq(<<MinSpikeRatio, 1>>, row.volume_spike_ratio)

\* line 90
CapKeepMutant(row) == row.market_cap_cr > 5 * MinMarketCapCr
CapKeep(row) == row.market_cap_cr > MinMarketCapCr

\* line 87: the left join on the symbol index
JoinCaps(volume_filtered, market_caps) ==
    [i \in 1..Len(volume_filtered) |->
        [symbol |-> volume_filtered[i].symbol,
         current_volume |-> volume_filtered[i].current_volume,
         avg_volume_prev_day |-> volume_filtered[i].avg_volume_prev_day,
         volume_spike_ratio |-> volume_filtered[i].volume_spike_ratio,
         market_cap_cr |-> market_caps[volume_filtered[i].symbol]]]

\* where a row goes in a frame sorted by current_volume, descending: after
\* the rows that are larger; among rows of equal volume pandas' default sort
\* promises no order, so the row goes before them (tie = "first") or after
\* them (tie = "last")
RECURSIVE InsertDesc(_, _, _)
InsertDesc(sorted, row, tie) ==
    IF sorted = <<>> THEN <<row>>
    ELSE IF \/ sorted[1].current_volume > row.current_volume
            \/ sorted[1].current_volume = row.current_volume /\ tie = "last"
         THEN <<sorted[1]>> \o InsertDesc(Tail(sorted), row, tie)
         ELSE <<row>> \o sorted

\* line 93: sort_values('current_volume', ascending=False)
SortDescMutant(rows, tie) == rows
RECURSIVE SortDesc(_, _)
SortDesc(rows, tie) ==
    IF rows = <<>> THEN <<>>
    ELSE InsertDesc(SortDesc(SubSeq(rows, 1, Len(rows) - 1), tie), rows[Len(rows)], tie)

TieOrders == {"first", "last"}

\* src/utils.py lines 33-38: the text shown for a market cap.  The text is
\* [unit, hundredths]: "4.98K" is ["K", 498], "996.00" is ["", 99600].  cap is
\* a whole number of crore; x.xx5 thousand is printed from the binary value
\* nearest to it, which the half-up rule used here may miss by one hundredth.
format_market_cap(market_cap) ==
    IF market_cap >= 1000
    THEN [unit |-> "K", hundredths |-> (market_cap + 5) \div 10]
    ELSE [unit |-> "", hundredths |-> market_cap * 100]

\* line 96
FormatRows(rows) ==
    [i \in 1..Len(rows) |->
        [rows[i] EXCEPT !.market_cap_cr = format_market_cap(rows[i].market_cap_cr)]]

\* line 73: the cycle ends before the market cap stage when no row passed
\* the spike filter
NoSpikeRowsMutant(volume_filtered) == FALSE
NoSpikeRows(volume_filtered) == volume_filtered = <<>>

\* lines 71 and 83: the symbols whose market caps the cycle asks for
RequestedSymbols(df) ==
    LET volume_filtered == SelectSeq(df, SpikeKeep)
    IN  [i \in 1..Len(volume_filtered) |-> volume_filtered[i].symbol]

\* lines 74-75 and 99-100: the cycle's frame and time are stored in the session
StoreResultMutant(session_state, rows, current_time) ==
    [session_state EXCEPT !.filtered_stocks = session_state.filtered_stocks \o rows,
                          !.last_update_time = <<current_time>>]
StoreResult(session_state, rows, current_time) ==
    [session_state EXCEPT !.filtered_stocks = rows,
                          !.last_update_time = <<current_time>>]

\* lines 35-104.  session_state is [symbols, filtered_stocks, last_update_time,
\* using_sample_data]; the outcome names the branch taken: "no_symbols"
\* (line 43), "no_volume" (line 67), "no_spike" (line 79), "complete";
\* ranked is the frame of line 93, before its market caps are formatted.
\* vol is what get_volume_data(symbols, ...) returns at line 63, quote_world
\* the quote answers the cap stage meets.
load_and_filter_stocks(session_state, cache, current_time, vol, quote_world, tie) ==
    LET symbols == session_state.symbols
        volume_filtered == SelectSeq(vol.df, SpikeKeep)
        caps == get_market_caps(RequestedSymbols(vol.df), cache, current_time, quote_world)
        joined == JoinCaps(volume_filtered, caps.result)
        ranked == Head10(SortDesc(SelectSeq(joined, CapKeep), tie), TopN)
        filtered_stocks == FormatRows(ranked)
        flagged == IF caps.sample_used THEN SetSampleFlag(vol.flag) ELSE vol.flag
    IN  IF symbols = <<>>
        THEN [outcome |-> "no_symbols", session |-> session_state, cache |-> cache,
              vol |-> <<>>, caps |-> <<>>, ranked |-> <<>>]
        ELSE IF vol.df = <<>>
        THEN [outcome |-> "no_volume",
              session |-> [session_state EXCEPT !.using_sample_data = vol.flag],
              cache |-> cache, vol |-> <<vol>>, caps |-> <<>>, ranked |-> <<>>]
        ELSE IF NoSpikeRows(volume_filtered)
        THEN [outcome |-> "no_spike",
              session |-> [StoreResult(session_state, <<>>, current_time)
                               EXCEPT !.using_sample_data = vol.flag],
              cache |-> cache, vol |-> <<vol>>, caps |-> <<>>, ranked |-> <<>>]
        ELSE [outcome |-> "complete",
              session |-> [StoreResult(session_state, filtered_stocks, current_time)
                               EXCEPT !.using_sample_data = flagged],
              cache |-> caps.cache, vol |-> <<vol>>, caps |-> <<caps>>,
              ranked |-> ranked]

-----------------------------------------------------------------------------
(* Market hours (src/utils.py) and the previous trading day                  *)
(* (src/stock_data.py lines 221-226)                                         *)

\* datetime.time(hour, minute, second): the microsecond is 0
dt_time(hour, minute, second) == <<hour, minute, second, 0>>

\* a <= b for two datetime.time values: the fields are compared in order
TimeLeqMutant(a, b) ==
    \E i \in 1..4 : a[i] < b[i] /\ \A j \in 1..(i - 1) : a[j] = b[j]
TimeLeq(a, b) ==
    \/ a = b
    \/ \E i \in 1..4 : a[i] < b[i] /\ \A j \in 1..(i - 1) : a[j] = b[j]

\* src/utils.py lines 26-27
market_open_time == dt_time(9, 15, 0)
market_close_time == dt_time(15, 30, 0)

\* src/utils.py lines 9-31.  current_time is [weekday, time]: weekday() is 0
\* for Monday up to 6 for Sunday, time the value of .time()
is_market_open(current_time) ==
    IF current_time.weekday >= 5
    THEN FALSE
    ELSE LET current_time_only == current_time.time
         IN  TimeLeq(market_open_time, current_time_only)
                /\ TimeLeq(current_time_only, market_close_time)

\* date.weekday() of a day number; day number 0 is a Monday
Weekday(day) == day % 7

\* src/stock_data.py line 224: the test of the while loop
IsWeekendMutant(day) == Weekday(day) > 5
IsWeekend(day) == Weekday(day) >= 5

\* line 223 and line 226: current_time_ist - timedelta(days=days_to_subtract)
PrevDay(today, days_to_subtract) == today - days_to_subtract

-----------------------------------------------------------------------------
(* Upstream answers used as inputs *)

Raise       == [kind |-> "raise", rows |-> <<>>]
Data(rows)  == [kind |-> "data", rows |-> rows]
Empty       == Data(<<>>)
Candle(t, v) == [t |-> t, v |-> v]

\* a frame is delivered on the third attempt, after an exception and an empty
\* frame; or on the first attempt
Late(rows)  == <<Raise, Empty, Data(rows)>>
Early(rows) == <<Data(rows), Raise, Raise>>

\* the elements of a finite set of numbers in ascending order
RECURSIVE Ascending(_)
Ascending(T) ==
    IF T = {} THEN <<>>
    ELSE LET m == CHOOSE x \in T : \A y \in T : x <= y
         IN  <<m>> \o Ascending(T \ {m})

MaxCandles == 4

\* 09:15, 10:00, 11:00 (inside the opening window), 11:05 (just outside),
\* 11:10, 12:10, 13:10 (outside, matched by Method 2 through "10:")
CandleTimes   == {555, 600, 660, 665, 670, 730, 790}
CandleVolumes == {0, 30, 1000}

FramesOver(T) ==
    LET ts == Ascending(T)
    IN  { [i \in 1..Len(ts) |-> Candle(ts[i], vol[i])] :
            vol \in [1..Len(ts) -> CandleVolumes] }

\* a session of twelve five-minute candles from 09:15, volumes 100, 200, ...
LongSession == [i \in 1..12 |-> Candle(555 + 5 * (i - 1), 100 * i)]

PrevFrames ==
    UNION { FramesOver(T) : T \in { S \in SUBSET CandleTimes : Cardinality(S) <= MaxCandles } }
        \cup {LongSession}

CurFrames ==
    { <<>>, <<Candle(600, 0)>>, <<Candle(600, 30)>>, <<Candle(600, 1000)>>,
      <<Candle(600, 15000)>>, <<Candle(600, 1000), Candle(605, 0)>>,
      <<Candle(600, 1000), Candle(605, 30)>> }

-----------------------------------------------------------------------------
(* Specification SpecHist: one call of get_history_with_fallback *)

HistFrames   == { <<Candle(555, 1000)>>, <<Candle(555, 0)>>,
                  <<Candle(555, 30), Candle(600, 1000)>> }
HistOutcomes == {Raise, Empty} \cup { Data(f) : f \in HistFrames }

EvalIdle == e_in = <<>> /\ e_out = <<>>
HistIdle == h_in = <<>> /\ h_out = <<>>

\* src/app.py lines 24-32: the keys a new session gets; using_sample_data is
\* not one of them (<<>> is the missing key)
NewSession(symbols) ==
    [symbols |-> symbols, filtered_stocks |-> <<>>, last_update_time |-> <<>>,
     using_sample_data |-> <<>>]

PipeIdle == session = NewSession(<<>>) /\ cycle = <<>>

\* no batched run under way
BatchIdle ==
    /\ b_total = 0 /\ b_i = 0 /\ b_phase = "loop"
    /\ b_pending = <<>> /\ b_running = {} /\ b_done = {}

\* no racing runs
RaceIdle ==
    /\ r_cache = EmptyMap /\ r_hist = EmptyMap /\ r_run = EmptyMap /\ r_reads = {}

\* lines 19-22: the symbol cache of a process that has just started
SymbolsInit ==
    /\ SYMBOL_CACHE = [timestamp |-> <<>>, symbols |-> <<>>]
    /\ s_call = <<>> /\ s_count = 0

NormIdle == n_in = "" /\ n_out = <<>>

MarketIdle == m_in = <<>> /\ m_out = <<>>
WalkIdle == w_today = 0 /\ w_sub = 0 /\ w_pc = "start"
VolIdle == v_in = <<>> /\ v_out = <<>>
UnitIdle == MarketIdle /\ WalkIdle /\ VolIdle

AuxIdle == BatchIdle /\ RaceIdle /\ SymbolsInit /\ NormIdle /\ UnitIdle

\* lines 24-27: the cache of a process that has just started
CapsInit ==
    /\ MARKET_CAP_CACHE = [timestamp |-> <<>>, market_caps |-> EmptyMap]
    /\ clock = 0
    /\ c_call = <<>>
    /\ c_resolved = EmptyMap
    /\ c_count = 0

InitHist ==
    /\ h_in \in [1..max_retries -> HistOutcomes]
    /\ h_out = <<>>
    /\ EvalIdle /\ CapsInit /\ PipeIdle /\ AuxIdle

CallGetHistory ==
    /\ h_in # <<>> /\ h_out = <<>>
    /\ h_out' = <<get_history_with_fallback(h_in)>>
    /\ UNCHANGED <<h_in, evalVars, capsVars, pipeVars, auxVars>>

NextHist == CallGetHistory

SpecHist == InitHist /\ [][NextHist]_vars

-----------------------------------------------------------------------------
(* Specification SpecEval: one call of fetch_volume_data_for_symbol *)

EvalSymbols == {"A", "ULTRACEM.NS"}

InitEval ==
    /\ e_in \in { <<[symbol |-> s, prev |-> Late(p), cur |-> Early(c)]>> :
                    s \in EvalSymbols, p \in PrevFrames, c \in CurFrames }
    /\ e_out = <<>>
    /\ HistIdle /\ CapsInit /\ PipeIdle /\ AuxIdle

CallFetchVolume ==
    /\ e_in # <<>> /\ e_out = <<>>
    /\ e_out' = <<fetch_volume_data_for_symbol(e_in[1].symbol, e_in[1].prev,
                                               e_in[1].cur)>>
    /\ UNCHANGED <<histVars, e_in, capsVars, pipeVars, auxVars>>

NextEval == CallFetchVolume

SpecEval == InitEval /\ [][NextEval]_vars

-----------------------------------------------------------------------------
(* Specification SpecCaps: get_market_caps calls against the shared cache,   *)
(* with the clock advancing between calls                                    *)

\* three attempts of one quote lookup
QHigh == <<Quote(60), QuoteRaise, QuoteRaise>>    \* 4980 crore at once
QLate == <<QuoteRaise, Quote(0), Quote(13)>>      \* 1079 crore on the third attempt
QLow  == <<Quote(12), QuoteRaise, QuoteRaise>>    \* 996 crore: positive, under the threshold
QFail == <<QuoteRaise, Quote(0), QuoteRaise>>     \* no positive market cap
QuoteScenarios == {QHigh, QLate, QLow, QFail}

\* symbols the fallback table does not know
UnknownSymbols == <<"A", "B", "C", "D", "E", "F", "G", "H">>

\* eleven symbols: more than MinRequestedForSample, three of them known to
\* the fallback table
BigRequest == UnknownSymbols \o <<"RELIANCE.NS", "TCS.NS", "ULTRACEM.NS">>

\* the last two hold one ticker twice: under its two spellings (both are
\* rows of the sample frame, src/sample_data.py lines 32-33), and repeated
CapRequests ==
    { <<"A">>, <<"RELIANCE.NS">>, <<"ULTRACEMCO.NS">>, <<"A", "ULTRACEM.NS">>, BigRequest,
      <<"ULTRACEM.NS", "ULTRACEMCO.NS">>, <<"A", "A">> }

NormalizedSet(symbols) == { normalize_symbol(symbols[i]) : i \in 1..Len(symbols) }

ExhaustiveSize == 2

\* the first `high` symbols of the list answer QHigh, the others `rest`
PatternWorld(symbols, high, rest) ==
    [s \in NormalizedSet(symbols) |->
        IF \E i \in 1..Min(high, Len(symbols)) : normalize_symbol(symbols[i]) = s
        THEN QHigh ELSE rest]

\* the quote answers a call may meet: every assignment of QLate and QFail for
\* a short request; for a long one, QFail for all but the first one or two
\* symbols (four or five values above zero, the fallback table's included)
CapWorlds(symbols) ==
    IF Cardinality(NormalizedSet(symbols)) <= ExhaustiveSize
    THEN [NormalizedSet(symbols) -> {QLate, QFail}]
    ELSE { PatternWorld(symbols, high, QFail) : high \in 1..2 }

MaxCalls  == 3
MaxTicks  == 3
ClockStep == CacheTtlSeconds \div 2

InitCaps ==
    /\ CapsInit
    /\ HistIdle /\ EvalIdle /\ PipeIdle /\ AuxIdle

CallGetMarketCaps ==
    /\ c_count < MaxCalls
    /\ \E symbols \in CapRequests : \E world \in CapWorlds(symbols) :
          LET out == get_market_caps(symbols, MARKET_CAP_CACHE, clock, world)
          IN  /\ MARKET_CAP_CACHE' = out.cache
              /\ c_call' = <<[symbols |-> symbols,
                              valid |-> cache_valid(MARKET_CAP_CACHE, clock),
                              before |-> MARKET_CAP_CACHE,
                              known |-> c_resolved,
                              out |-> out]>>
              /\ c_resolved' = [s \in DOMAIN c_resolved \cup NormalizedSet(symbols) |->
                                  IF s \in NormalizedSet(symbols)
                                  THEN out.result[CHOOSE r \in SeqRange(symbols) :
                                                      normalize_symbol(r) = s]
                                  ELSE c_resolved[s]]
    /\ c_count' = c_count + 1
    /\ UNCHANGED <<clock, histVars, evalVars, pipeVars, auxVars>>

AdvanceClock ==
    /\ clock < MaxTicks * ClockStep
    /\ clock' = clock + ClockStep
    /\ UNCHANGED <<MARKET_CAP_CACHE, c_call, c_resolved, c_count, histVars, evalVars, pipeVars,
                   auxVars>>

NextCaps == CallGetMarketCaps \/ AdvanceClock

SpecCaps == InitCaps /\ [][NextCaps]_vars

-----------------------------------------------------------------------------
(* Specification Spec: one refresh cycle, load_and_filter_stocks, over a     *)
(* universe and the upstream answers it meets                                *)

\* previous-session frames: three opening-window candles
BaseFrame(v1, v2, v3) == <<Candle(555, v1), Candle(560, v2), Candle(565, v3)>>

\* current-session frame: the last candle carries the current volume
CurFrame(v) == <<Candle(555, 700), Candle(560, v)>>

\* what the history upstream answers for one symbol, by scenario name
HistAnswers(id) ==
    CASE id = "fail"  -> [prev |-> <<Raise, Empty, Raise>>, cur |-> <<Raise, Raise, Raise>>]
      [] id = "void"  -> [prev |-> Early(BaseFrame(0, 0, 0)), cur |-> Early(CurFrame(15000))]
      [] id = "low"   -> [prev |-> Early(BaseFrame(1000, 1000, 1000)), cur |-> Late(CurFrame(5000))]
      [] id = "near"  -> [prev |-> Early(BaseFrame(1000, 1000, 1003)), cur |-> Early(CurFrame(10000))]
      [] id = "edge"  -> [prev |-> Late(BaseFrame(999, 1000, 1001)),   cur |-> Early(CurFrame(10000))]
      [] id = "spike" -> [prev |-> Late(BaseFrame(1000, 1000, 1000)),  cur |-> Early(CurFrame(15000))]
      [] id = "surge" -> [prev |-> Early(BaseFrame(500, 1000, 1500)),  cur |-> Late(CurFrame(20000))]

HistWorldOf(scenario) == [s \in DOMAIN scenario |-> HistAnswers(scenario[s])]

\* the universes: the prefixes of SmallList, the universe the program builds
\* (lines 139-144: the normalized reliable symbols), the minimal universe of
\* lines 156-161, and BigRequest
SmallList == <<"A", "B", "RELIANCE.NS", "ULTRACEM.NS", "C", "TCS.NS", "D">>
MaxUniverse == 5


Universes ==
    { SubSeq(SmallList, 1, n) : n \in 0..Min(MaxUniverse, Len(SmallList)) }
        \cup {minimal_symbols, BigRequest, nse_symbols}

ExhaustiveScenarios == {"fail", "low", "spike"}
SpikeCycle == <<"spike", "edge", "near", "surge">>

\* the first n_fail symbols fail (the upstream raises, or its data is not
\* valid), the next n_low stay under the threshold,
\* the others spike: all alike (pat = "same") or by turns (pat = "mixed")
HistPattern(symbols, n_fail, n_low, pat) ==
    [s \in SeqRange(symbols) |->
        LET i == CHOOSE k \in 1..Len(symbols) : symbols[k] = s
        IN  IF i <= n_fail THEN (IF i % 2 = 1 THEN "fail" ELSE "void")
            ELSE IF i <= n_fail + n_low THEN "low"
            ELSE IF pat = "same" THEN "spike"
            ELSE SpikeCycle[((i - 1) % Len(SpikeCycle)) + 1]]

\* the history scenarios a cycle over `symbols` may meet: every assignment
\* for a short universe, patterns around the MinLiveRecords threshold for a
\* long one
HistScenarios(symbols) ==
    IF Len(symbols) <= MaxUniverse
    THEN [SeqRange(symbols) -> ExhaustiveScenarios]
    ELSE { HistPattern(symbols, n_fail, n_low, pat) :
             n_fail \in {0, 2, Len(symbols) - MinLiveRecords, Len(symbols) - MinLiveRecords + 1,
                         Len(symbols)},
             n_low \in {0, 1}, pat \in {"same", "mixed"} }

\* the quote answers a cycle asking for `requested` may meet: the first
\* `high` symbols answer QHigh, the others all QFail, all QLow or all QLate
QuotePatterns(requested) ==
    { PatternWorld(requested, high, rest) :
        high \in {0, 1, 2, Len(requested)}, rest \in {QFail, QLow, QLate} }

Init ==
    /\ session \in { NewSession(u) : u \in Universes }
    /\ cycle = <<>>
    /\ CapsInit /\ HistIdle /\ EvalIdle /\ AuxIdle

\* one run of load_and_filter_stocks; cycle keeps what the run met (hist,
\* quote, tie) and what its stages returned
LoadAndFilterStocks ==
    /\ cycle = <<>>
    /\ \E scenario \in HistScenarios(session.symbols), tie \in TieOrders :
         LET vol == get_volume_data(session.symbols, HistWorldOf(scenario),
                                    session.using_sample_data)
         IN  \E quote_world \in QuotePatterns(RequestedSymbols(vol.df)) :
               LET out == load_and_filter_stocks(session, MARKET_CAP_CACHE, clock,
                                                 vol, quote_world, tie)
               IN  /\ session' = out.session
                   /\ MARKET_CAP_CACHE' = out.cache
                   /\ cycle' = <<[outcome |-> out.outcome, symbols |-> session.symbols,
                                  hist |-> scenario, quote |-> quote_world, tie |-> tie,
                                  before |-> session, cache |-> MARKET_CAP_CACHE,
                                  vol |-> out.vol, caps |-> out.caps, ranked |-> out.ranked]>>
    /\ UNCHANGED <<clock, c_call, c_resolved, c_count, histVars, evalVars, auxVars>>

Next == LoadAndFilterStocks

Spec == Init /\ [][Next]_vars

-----------------------------------------------------------------------------
(* Specification SpecBatch: the threads of one batched run, the loop of      *)
(* stock_data.py lines 352-367 (get_volume_data) and 478-496                 *)
(* (get_market_caps): for each batch a ThreadPoolExecutor(max_workers=5) is  *)
(* entered, executor.map submits the batch's items, list() collects every    *)
(* result, and the with block is left                                        *)

max_workers == 5

MaxItems == 15

InitBatch ==
    /\ b_total \in 0..MaxItems
    /\ b_i = 0 /\ b_phase = "loop"
    /\ b_pending = <<>> /\ b_running = {} /\ b_done = {}
    /\ HistIdle /\ EvalIdle /\ CapsInit /\ PipeIdle /\ RaceIdle /\ SymbolsInit /\ NormIdle
    /\ UnitIdle

\* lines 352-356 / 478-482: the next iteration of the for loop; executor.map
\* submits every item of batch = items[i:i+batch_size] at once
SubmitBatch ==
    /\ b_phase = "loop" /\ b_i < b_total
    /\ b_pending' = [k \in 1..(Min(b_i + batch_size, b_total) - b_i) |-> b_i + k]
    /\ b_phase' = "map"
    /\ UNCHANGED <<b_total, b_i, b_running, b_done>>
    /\ UNCHANGED <<histVars, evalVars, capsVars, pipeVars, raceVars, symVars, normVars, unitVars>>

\* the executor starts a thread for a submitted item only while it has fewer
\* than max_workers threads; its threads take the items in submission order
WorkerFreeMutant(running) == TRUE
WorkerFree(running) == Cardinality(running) < max_workers

\* a worker takes the next submitted item and enters the per-item call
WorkerStart ==
    /\ b_phase = "map" /\ b_pending # <<>>
    /\ WorkerFree(b_running)
    /\ b_running' = b_running \cup {Head(b_pending)}
    /\ b_pending' = Tail(b_pending)
    /\ UNCHANGED <<b_total, b_i, b_phase, b_done>>
    /\ UNCHANGED <<histVars, evalVars, capsVars, pipeVars, raceVars, symVars, normVars, unitVars>>

\* a per-item call returns
WorkerFinish ==
    /\ \E item \in b_running :
          /\ b_running' = b_running \ {item}
          /\ b_done' = b_done \cup {item}
    /\ UNCHANGED <<b_total, b_i, b_phase, b_pending>>
    /\ UNCHANGED <<histVars, evalVars, capsVars, pipeVars, raceVars, symVars, normVars, unitVars>>

\* list(executor.map(...)) has every result and the with block's shutdown has
\* joined the workers: the loop body ends (lines 358-367 / 484-496) and i
\* advances by batch_size
BatchCollected(pending, running) == pending = <<>> /\ running = {}

FinishBatch ==
    /\ b_phase = "map"
    /\ BatchCollected(b_pending, b_running)
    /\ b_i' = b_i + batch_size
    /\ b_phase' = "loop"
    /\ UNCHANGED <<b_total, b_pending, b_running, b_done>>
    /\ UNCHANGED <<histVars, evalVars, capsVars, pipeVars, raceVars, symVars, normVars, unitVars>>

NextBatch == SubmitBatch \/ WorkerStart \/ WorkerFinish \/ FinishBatch

SpecBatch == InitBatch /\ [][NextBatch]_vars

-----------------------------------------------------------------------------
(* Specification SpecRace: get_market_caps runs of concurrently running      *)
(* cycles against the one market-cap map.  A step is one operation on the    *)
(* dict, which the interpreter executes as a whole: the membership test of   *)
(* line 390, the subscript read of line 391, the item assignment of line     *)
(* 489.  The workers of a run (line 482) only read; the run's own writes     *)
(* come after executor.map has returned.                                     *)

RaceRuns == {1, 2, 3}
RaceKeys == {"A", "B"}
RaceRequests == { <<"A">>, <<"B">>, <<"A", "B">>, <<"B", "A">> }

\* what run t's quote lookup resolves for key k: a value no other lookup gives
LiveValue(t, k) == 10 * t + (IF k = "A" THEN 1 ELSE 2)

NewRun(req) ==
    [req |-> req, begun |-> FALSE, snapshot |-> EmptyMap,
     checked |-> EmptyMap, vals |-> EmptyMap, written |-> 0]

InitRace ==
    /\ r_cache \in {EmptyMap, ("A" :> 5)}
    /\ r_hist = [k \in RaceKeys |-> IF k \in DOMAIN r_cache THEN <<r_cache[k]>> ELSE <<>>]
    /\ r_run \in [RaceRuns -> { NewRun(req) : req \in RaceRequests }]
    /\ r_reads = {}
    /\ HistIdle /\ EvalIdle /\ CapsInit /\ PipeIdle /\ BatchIdle /\ SymbolsInit /\ NormIdle
    /\ UnitIdle

\* lines 449-464 with an expired cache: market_caps = {}, every requested
\* symbol is to be fetched
RunBegins(t) ==
    /\ ~r_run[t].begun
    /\ r_run' = [r_run EXCEPT ![t].begun = TRUE, ![t].snapshot = EmptyMap]
    /\ UNCHANGED <<r_cache, r_hist, r_reads>>

\* line 390 in a worker of run t: normalized_symbol in MARKET_CAP_CACHE[...];
\* when the key is missing the worker goes on to the quote lookup
WorkerChecks(t, k) ==
    /\ r_run[t].begun
    /\ k \in SeqRange(r_run[t].req)
    /\ k \notin DOMAIN r_run[t].checked /\ k \notin DOMAIN r_run[t].vals
    /\ IF k \in DOMAIN r_cache
       THEN r_run' = [r_run EXCEPT ![t].checked = Put(@, k, Len(r_hist[k]))]
       ELSE r_run' = [r_run EXCEPT ![t].vals = Put(@, k, LiveValue(t, k))]
    /\ UNCHANGED <<r_cache, r_hist, r_reads>>

\* line 391: return MARKET_CAP_CACHE['market_caps'][normalized_symbol].  The
\* read is logged with the positions in the key's history at the test of
\* line 390 (from) and now (to).
WorkerReads(t, k) ==
    /\ k \in DOMAIN r_run[t].checked /\ k \notin DOMAIN r_run[t].vals
    /\ r_run' = [r_run EXCEPT ![t].vals = Put(@, k, r_cache[k])]
    /\ r_reads' = r_reads \cup {[run |-> t, key |-> k, value |-> r_cache[k],
                                 from |-> r_run[t].checked[k], to |-> Len(r_hist[k])]}
    /\ UNCHANGED <<r_cache, r_hist>>

\* line 489: the item assignment stores into the shared map as it is now
CacheWriteMutant(shared_caps, snapshot, k, value) == Put(snapshot, k, value)
CacheWrite(shared_caps, snapshot, k, value) == Put(shared_caps, k, value)

\* lines 484-489 in run t, after every worker has returned: the next symbol
\* of the zip loop
MainWrites(t) ==
    /\ r_run[t].begun
    /\ DOMAIN r_run[t].vals = SeqRange(r_run[t].req)
    /\ r_run[t].written < Len(r_run[t].req)
    /\ LET k == r_run[t].req[r_run[t].written + 1]
           value == r_run[t].vals[k]
       IN  /\ r_cache' = CacheWrite(r_cache, r_run[t].snapshot, k, value)
           /\ r_hist' = [r_hist EXCEPT ![k] = Append(@, value)]
           /\ r_run' = [r_run EXCEPT ![t].written = @ + 1,
                                     ![t].snapshot = Put(@, k, value)]
    /\ UNCHANGED r_reads

NextRace ==
    /\ \E t \in RaceRuns :
          \/ RunBegins(t)
          \/ \E k \in RaceKeys : WorkerChecks(t, k)
          \/ \E k \in RaceKeys : WorkerReads(t, k)
          \/ MainWrites(t)
    /\ UNCHANGED <<histVars, evalVars, capsVars, pipeVars, batchVars, symVars, normVars, unitVars>>

SpecRace == InitRace /\ [][NextRace]_vars

-----------------------------------------------------------------------------
(* Specification SpecSymbols: get_nse_bse_symbols calls against the symbol   *)
(* cache, with the clock advancing between calls                             *)

MaxSymbolCalls == 3
MaxSymbolTicks == 4
SymbolClockStep == SymbolTtlSeconds \div 2

InitSymbols ==
    /\ SymbolsInit
    /\ HistIdle /\ EvalIdle /\ CapsInit /\ PipeIdle /\ BatchIdle /\ RaceIdle /\ NormIdle
    /\ UnitIdle

CallGetSymbols ==
    /\ s_count < MaxSymbolCalls
    /\ \E fault \in SymbolFaults :
          LET out == get_nse_bse_symbols(SYMBOL_CACHE, clock, fault)
          IN  /\ SYMBOL_CACHE' = out.cache
              /\ s_call' = <<[before |-> SYMBOL_CACHE, now |-> clock, fault |-> fault,
                              out |-> out]>>
    /\ s_count' = s_count + 1
    /\ UNCHANGED <<histVars, evalVars, capsVars, pipeVars, batchVars, raceVars, normVars, unitVars>>

SymbolClockTick ==
    /\ clock < MaxSymbolTicks * SymbolClockStep
    /\ clock' = clock + SymbolClockStep
    /\ UNCHANGED <<MARKET_CAP_CACHE, c_call, c_resolved, c_count, symVars>>
    /\ UNCHANGED <<histVars, evalVars, pipeVars, batchVars, raceVars, normVars, unitVars>>

NextSymbols == CallGetSymbols \/ SymbolClockTick

SpecSymbols == InitSymbols /\ [][NextSymbols]_vars

-----------------------------------------------------------------------------
(* Specification SpecNorm: normalize_symbol applied to a symbol, and again   *)
(* to its own result                                                         *)

\* src/sample_data.py lines 12-36: the sample universe
get_sample_symbols == { get_sample_volume_data[i].symbol : i \in 1..Len(get_sample_volume_data) }

\* the symbols of the mapping table (keys and targets), of the reliable list
\* and of the sample universe
KnownSymbols ==
    DOMAIN SYMBOL_MAPPING \cup { SYMBOL_MAPPING[k] : k \in DOMAIN SYMBOL_MAPPING }
        \cup SeqRange(RELIABLE_SYMBOLS) \cup get_sample_symbols

MaxNormalize == 3

InitNorm ==
    /\ n_in \in KnownSymbols \cup SeqRange(UnknownSymbols)
    /\ n_out = <<>>
    /\ HistIdle /\ EvalIdle /\ CapsInit /\ PipeIdle /\ BatchIdle /\ RaceIdle /\ SymbolsInit
    /\ UnitIdle

CallNormalize ==
    /\ Len(n_out) < MaxNormalize
    /\ n_out' = Append(n_out, normalize_symbol(IF n_out = <<>> THEN n_in
                                               ELSE n_out[Len(n_out)]))
    /\ UNCHANGED <<n_in, histVars, evalVars, capsVars, pipeVars, batchVars, raceVars, symVars,
                   unitVars>>

NextNorm == CallNormalize

SpecNorm == InitNorm /\ [][NextNorm]_vars

-----------------------------------------------------------------------------
(* Specification SpecRefresh: a refresh cycle of a session that may already  *)
(* hold the result of an earlier cycle (src/app.py lines 118-126)            *)

\* lines 113-115: the default refresh interval, 5 minutes, in seconds
RefreshIntervalSeconds == 300

\* a frame an earlier cycle stored
EarlierResult ==
    FormatRows(<< [symbol |-> "ITC.NS", current_volume |-> 20000,
                   avg_volume_prev_day |-> <<2000, 1>>,
                   volume_spike_ratio |-> <<10, 1>>, market_cap_cr |-> 5500] >>)

\* the session after an earlier cycle that completed at time 0
EarlierSession(symbols) ==
    StoreResult(NewSession(symbols), EarlierResult, 0)

RefreshUniverses == {<<>>, minimal_symbols, nse_symbols}

InitRefresh ==
    /\ session \in { NewSession(u) : u \in RefreshUniverses }
                      \cup { EarlierSession(u) : u \in RefreshUniverses }
    /\ cycle = <<>>
    /\ MARKET_CAP_CACHE = [timestamp |-> <<>>, market_caps |-> EmptyMap]
    /\ clock = RefreshIntervalSeconds
    /\ c_call = <<>> /\ c_resolved = EmptyMap /\ c_count = 0
    /\ HistIdle /\ EvalIdle /\ AuxIdle

NextRefresh == LoadAndFilterStocks

SpecRefresh == InitRefresh /\ [][NextRefresh]_vars

-----------------------------------------------------------------------------
(* Specification SpecMarket: one call of is_market_open                      *)

MarketHours == {0, 9, 12, 15, 23}
MarketMinutes == {0, 14, 15, 29, 30, 31, 59}
MarketSeconds == {0, 1, 59}
MarketMicros == {0, 999999}

MarketTimes ==
    [weekday : 0..6,
     time : MarketHours \X MarketMinutes \X MarketSeconds \X MarketMicros]

InitMarket ==
    /\ m_in \in { <<t>> : t \in MarketTimes }
    /\ m_out = <<>>
    /\ HistIdle /\ EvalIdle /\ CapsInit /\ PipeIdle
    /\ BatchIdle /\ RaceIdle /\ SymbolsInit /\ NormIdle /\ WalkIdle /\ VolIdle

CallIsMarketOpen ==
    /\ m_out = <<>>
    /\ m_out' = <<is_market_open(m_in[1])>>
    /\ UNCHANGED <<m_in, walkVars, histVars, evalVars, capsVars, pipeVars,
                   batchVars, raceVars, symVars, normVars, volVars>>

NextMarket == CallIsMarketOpen

SpecMarket == InitMarket /\ [][NextMarket]_vars

-----------------------------------------------------------------------------
(* Specification SpecWalk: the loop of src/stock_data.py lines 222-226 that  *)
(* finds the previous trading day, one step per evaluation of the while test *)

MaxWeeks == 5

\* the dates the walk starts from: MaxWeeks whole weeks, after a first week
\* the walk can go back into
WalkDays == 7..(7 * (MaxWeeks + 1) - 1)

InitWalk ==
    /\ w_today \in WalkDays
    /\ w_sub = 0
    /\ w_pc = "start"
    /\ HistIdle /\ EvalIdle /\ CapsInit /\ PipeIdle
    /\ BatchIdle /\ RaceIdle /\ SymbolsInit /\ NormIdle /\ MarketIdle /\ VolIdle

\* lines 222-223
WalkBegin ==
    /\ w_pc = "start"
    /\ w_sub' = 1
    /\ w_pc' = "loop"
    /\ UNCHANGED <<w_today, marketVars, histVars, evalVars, capsVars, pipeVars,
                   batchVars, raceVars, symVars, normVars, volVars>>

\* lines 224-226: the test holds, the body runs
WalkStep ==
    /\ w_pc = "loop"
    /\ IsWeekend(PrevDay(w_today, w_sub))
    /\ w_sub' = w_sub + 1
    /\ UNCHANGED <<w_today, w_pc, marketVars, histVars, evalVars, capsVars, pipeVars,
                   batchVars, raceVars, symVars, normVars, volVars>>

\* line 224: the test fails, the loop is left
WalkEnd ==
    /\ w_pc = "loop"
    /\ ~IsWeekend(PrevDay(w_today, w_sub))
    /\ w_pc' = "done"
    /\ UNCHANGED <<w_today, w_sub, marketVars, histVars, evalVars, capsVars, pipeVars,
                   batchVars, raceVars, symVars, normVars, volVars>>

NextWalk == WalkBegin \/ WalkStep \/ WalkEnd

\* the interpreter keeps running the loop
SpecWalk == InitWalk /\ [][NextWalk]_vars /\ WF_vars(NextWalk)

-----------------------------------------------------------------------------
(* Specification SpecVolume: one call of get_volume_data, for every universe *)
(* (the empty one too) and the history answers of the refresh cycle          *)

InitVolume ==
    /\ v_in \in UNION { { <<[symbols |-> u, hist |-> scenario]>> :
                            scenario \in HistScenarios(u) } : u \in Universes }
    /\ v_out = <<>>
    /\ HistIdle /\ EvalIdle /\ CapsInit /\ PipeIdle
    /\ BatchIdle /\ RaceIdle /\ SymbolsInit /\ NormIdle /\ MarketIdle /\ WalkIdle

CallGetVolumeData ==
    /\ v_out = <<>>
    /\ v_out' = <<get_volume_data(v_in[1].symbols, HistWorldOf(v_in[1].hist), <<>>)>>
    /\ UNCHANGED <<v_in, marketVars, walkVars, histVars, evalVars, capsVars, pipeVars,
                   batchVars, raceVars, symVars, normVars>>

NextVolume == CallGetVolumeData

SpecVolume == InitVolume /\ [][NextVolume]_vars

-----------------------------------------------------------------------------
(* Claims *)

FailedAttempt(a) == a.kind = "raise" \/ a.rows = <<>>

\* C8: get_history_with_fallback makes at most 3 upstream history calls,
\* returns the first non-empty series and calls no further, returns the empty
\* series when all 3 attempts are empty or raise, and never raises.
C8_HistoryRetries ==
    h_out # <<>> =>
        LET r == h_out[1]
        IN  /\ r.calls \in 1..3
            /\ ~r.raised
            /\ r.data # <<>> =>
                   /\ h_in[r.calls] = Data(r.data)
                   /\ \A j \in 1..(r.calls - 1) : FailedAttempt(h_in[j])
            /\ (\A j \in 1..3 : FailedAttempt(h_in[j])) => r.data = <<>> /\ r.calls = 3
            /\ r.data = <<>> => \A j \in 1..3 : FailedAttempt(h_in[j])

\* C8 witness: the first attempt raised, the second returned a series, and the
\* third attempt's series was never asked for
C8_Witness ==
    /\ h_out # <<>>
    /\ h_in[1] = Raise /\ ~FailedAttempt(h_in[2]) /\ ~FailedAttempt(h_in[3])
    /\ h_in[2] # h_in[3]
    /\ h_out[1].calls = 2 /\ h_out[1].data = h_in[2].rows

\* the baseline candles of the call in e_in
EvalBaseline == FilteredCandles(get_history_with_fallback(e_in[1].prev).data)

\* C9: no VolumeRecord is emitted when the previous-session baseline is zero
\* or undefined (no candle to average).
C9_NoRecordOnZeroBaseline ==
    (/\ e_out # <<>>
     /\ \/ EvalBaseline = <<>>
        \/ \A i \in 1..Len(EvalBaseline) : EvalBaseline[i].v = 0)
        => e_out[1].rec = <<>>

\* C9 witness: three window candles of volume 0 in a frame that passes the
\* validity floor, a usable current candle, and no record
C9_Witness ==
    /\ e_out # <<>>
    /\ Len(EvalBaseline) >= 3
    /\ \A i \in 1..Len(EvalBaseline) : EvalBaseline[i].v = 0
    /\ is_valid_volume_data(get_history_with_fallback(e_in[1].prev).data)
    /\ e_in[1].cur = Early(<<Candle(600, 15000)>>)
    /\ e_out[1].rec = <<>>

\* C4: for a symbol resolved by an earlier get_market_caps call, a later call
\* made while the cache timestamp is less than 1 hour old makes no upstream
\* quote lookup for it and returns the value the earlier call returned.
C4_CachedWithinTtl ==
    c_call # <<>> =>
        LET c == c_call[1]
        IN  \A r \in SeqRange(c.symbols) :
                (c.valid /\ normalize_symbol(r) \in DOMAIN c.known) =>
                    /\ Get(c.out.calls, normalize_symbol(r), 0) = 0
                    /\ c.out.result[r] = c.known[normalize_symbol(r)]

\* C4 witness: A was resolved to 0 by an earlier call; a later call inside the
\* TTL asks for A and ULTRACEM.NS, looks up only ULTRACEMCO.NS and returns 0
\* for A
C4_Witness ==
    /\ c_call # <<>>
    /\ c_call[1].valid
    /\ c_call[1].symbols = <<"A", "ULTRACEM.NS">>
    /\ "A" \in DOMAIN c_call[1].known /\ c_call[1].known["A"] = 0
    /\ c_call[1].out.fetched = <<"ULTRACEMCO.NS">>
    /\ c_call[1].out.calls["ULTRACEMCO.NS"] = 3
    /\ c_call[1].out.result["A"] = 0

\* C5: once the cache timestamp is 1 hour old or more, a get_market_caps call
\* for a symbol cached before does not reuse the stored value: it makes a new
\* upstream quote lookup for the symbol.
C5_RefetchAfterTtl ==
    c_call # <<>> =>
        LET c == c_call[1]
        IN  \A r \in SeqRange(c.symbols) :
                (/\ c.before.timestamp # <<>>
                 /\ ~c.valid
                 /\ normalize_symbol(r) \in DOMAIN c.before.market_caps) =>
                    Get(c.out.calls, normalize_symbol(r), 0) >= 1


\* the live records among what fetch_volume_data_for_symbol returned
LiveRecords(per_item) ==
    LET Found(result) == result # <<>>
        found == SelectSeq(per_item, Found)
    IN  [k \in 1..Len(found) |-> found[k][1]]

\* what fetch_volume_data_for_symbol returned for symbol s of the cycle
ItemOf(c, s) ==
    c.vol[1].per_item[CHOOSE k \in 1..Len(c.symbols) : c.symbols[k] = s]

RowSymbols(rows) == { rows[i].symbol : i \in 1..Len(rows) }

\* C2: when fewer than 5 symbols of the universe yield a live record,
\* get_volume_data returns exactly the synthetic sample dataset; when 5 or
\* more do, it returns exactly the live records, in order, and nothing else.
C2_SampleSubstitution ==
    (cycle # <<>> /\ cycle[1].vol # <<>>) =>
        LET v == cycle[1].vol[1]
            live == LiveRecords(v.per_item)
        IN  /\ Len(v.per_item) = Len(cycle[1].symbols)
            /\ IF Len(live) < 5
               THEN v.df = get_sample_volume_data /\ v.sample_used
               ELSE v.df = live /\ ~v.sample_used

\* a cycle in which exactly 4 symbols yielded a live record
C2_Witness ==
    /\ cycle # <<>> /\ cycle[1].vol # <<>>
    /\ Len(LiveRecords(cycle[1].vol[1].per_item)) = 4
    /\ cycle[1].vol[1].df = get_sample_volume_data

\* the progress values of one batched run over n items
ProgressAsClaimed(progress, n) ==
    /\ Len(progress) = (n + batch_size - 1) \div batch_size
    /\ \A j \in 1..Len(progress) :
          RatEq(progress[j], <<Min(j * batch_size, n), n>>)
    /\ \A j \in 1..(Len(progress) - 1) : RatLeq(progress[j], progress[j + 1])
    /\ progress[Len(progress)] = <<1, 1>>

\* C6: over one batched run on a non-empty item list (the program's batch
\* size is 10) the progress values handed to the callback never decrease,
\* each equals min(1, items processed so far / total items) and the last is
\* exactly 1; the results collected by the volume stage are the non-null
\* per-item results, each once, and the cap stage keeps for every item the
\* value its own lookup returned.
C6_BatchProgress ==
    (cycle # <<>> /\ cycle[1].vol # <<>>) =>
        LET c == cycle[1]
            v == c.vol[1]
        IN  /\ ProgressAsClaimed(v.progress, Len(c.symbols))
            /\ v.results = LiveRecords(v.per_item)
            /\ (c.caps # <<>> /\ c.caps[1].fetched # <<>>) =>
                  /\ ProgressAsClaimed(c.caps[1].progress, Len(c.caps[1].fetched))
                  /\ ~c.caps[1].sample_used =>
                        \A s \in SeqRange(c.caps[1].fetched) :
                            c.caps[1].cache.market_caps[s] =
                                get_market_cap(s, c.cache.market_caps, c.quote[s]).value

\* a cycle whose volume stage ran three batches, some symbols yielding no
\* record, and whose cap stage ran more than one batch
C6_Witness ==
    /\ cycle # <<>> /\ cycle[1].vol # <<>> /\ cycle[1].caps # <<>>
    /\ Len(cycle[1].vol[1].progress) = 3
    /\ Len(cycle[1].vol[1].results) >= 5
    /\ Len(cycle[1].vol[1].results) < Len(cycle[1].symbols)
    /\ Len(cycle[1].caps[1].progress) >= 2
    /\ ~cycle[1].caps[1].sample_used

\* C7: whenever a cycle substitutes the synthetic dataset in the volume stage
\* or backfills market caps from the sample table, the session's
\* using_sample_data flag is true at the end of that cycle.
C7_DegradedFlag ==
    (/\ cycle # <<>> /\ cycle[1].vol # <<>>
     /\ (\/ cycle[1].vol[1].sample_used
         \/ cycle[1].caps # <<>> /\ cycle[1].caps[1].sample_used)) =>
        session.using_sample_data = <<TRUE>>

\* the checks C1 makes on a stored result, but for the order of the rows
ScreenResultRows(rows, ranked) ==
    /\ Len(rows) <= 10
    /\ Len(rows) = Len(ranked)
    /\ \A i \in 1..Len(rows) :
          /\ rows[i].symbol = ranked[i].symbol
          /\ rows[i].current_volume = ranked[i].current_volume
          /\ RatLeq(<<10, 1>>, rows[i].volume_spike_ratio)
          /\ ranked[i].market_cap_cr > 1000
          /\ rows[i].market_cap_cr = format_market_cap(ranked[i].market_cap_cr)

\* C1 (as amended): after a refresh cycle that completes, the stored
\* ScreenResult has at most 10 rows, is in non-increasing order of
\* current_volume (rows of equal volume may be adjacent), and every row has a
\* spike ratio of at least 10 and a market cap above 1000 crore (what is
\* stored of the market cap is its display text).
C1_ScreenResult ==
    (cycle # <<>> /\ cycle[1].outcome = "complete") =>
        /\ ScreenResultRows(session.filtered_stocks, cycle[1].ranked)
        /\ \A i \in 1..(Len(session.filtered_stocks) - 1) :
              session.filtered_stocks[i].current_volume
                  >= session.filtered_stocks[i + 1].current_volume

\* C1 as stated: the same, with the rows strictly descending by current_volume
C1_StrictlyDescending ==
    (cycle # <<>> /\ cycle[1].outcome = "complete") =>
        /\ ScreenResultRows(session.filtered_stocks, cycle[1].ranked)
        /\ \A i \in 1..(Len(session.filtered_stocks) - 1) :
              session.filtered_stocks[i].current_volume
                  > session.filtered_stocks[i + 1].current_volume

\* a completed cycle over live records that stored a full result of 10 rows
\* out of more than 10 spiking symbols
C1_Witness ==
    /\ cycle # <<>> /\ cycle[1].outcome = "complete"
    /\ ~cycle[1].vol[1].sample_used
    /\ Len(session.filtered_stocks) = 10
    /\ Len(cycle[1].caps[1].fetched) > 10

\* the scenario of C3 in a cycle: A yielded a live record with baseline mean
\* 1000 and current volume 15000, B one with baseline mean 1000 and current
\* volume 5000, and the quote upstream answers 4980 crore for A
ScenarioAB(c) ==
    /\ c.vol # <<>>
    /\ "A" \in SeqRange(c.symbols) /\ "B" \in SeqRange(c.symbols)
    /\ ItemOf(c, "A") # <<>> /\ ItemOf(c, "B") # <<>>
    /\ RatEq(ItemOf(c, "A")[1].avg_volume_prev_day, <<1000, 1>>)
    /\ ItemOf(c, "A")[1].current_volume = 15000
    /\ RatEq(ItemOf(c, "B")[1].avg_volume_prev_day, <<1000, 1>>)
    /\ ItemOf(c, "B")[1].current_volume = 5000

ResultAB(c) ==
    /\ c.outcome = "complete"
    /\ "A" \in RowSymbols(session.filtered_stocks)
    /\ "B" \notin RowSymbols(session.filtered_stocks)
    /\ "B" \notin SeqRange(c.caps[1].fetched)
    /\ Get(c.caps[1].calls, "B", 0) = 0

\* C3 (as amended): on a universe of 5 to 10 symbols that contains A and B
\* and in which at least 5 symbols yield a live record, when A yields a live
\* record with baseline mean 1000 and current volume 15000 and a market cap
\* above 1000 crore (4980), and B one with baseline mean 1000 and current
\* volume 5000, the ScreenResult contains A, does not contain B, and no
\* market-cap lookup is issued for B.
C3_EndToEnd ==
    (/\ cycle # <<>> /\ ScenarioAB(cycle[1])
     /\ Len(cycle[1].symbols) <= 10
     /\ Len(LiveRecords(cycle[1].vol[1].per_item)) >= 5
     /\ "A" \in DOMAIN cycle[1].quote /\ cycle[1].quote["A"] = QHigh) =>
        ResultAB(cycle[1])

\* C3 as stated: the same on the two-symbol universe {A, B}
C3_TwoSymbolUniverse ==
    (/\ cycle # <<>> /\ ScenarioAB(cycle[1])
     /\ cycle[1].symbols = <<"A", "B">>) =>
        ResultAB(cycle[1])

\* the amended scenario happened: five live records, A and B among them
C3_Witness ==
    /\ cycle # <<>> /\ ScenarioAB(cycle[1])
    /\ Len(cycle[1].symbols) = 5
    /\ Len(LiveRecords(cycle[1].vol[1].per_item)) = 5
    /\ "A" \in DOMAIN cycle[1].quote /\ cycle[1].quote["A"] = QHigh
    /\ RowSymbols(session.filtered_stocks) = {"A"}

\* spike_ratio == current_volume / avg_volume_prev_day
ExactRatio(row) ==
    RatEq(row.volume_spike_ratio, RatDiv(<<row.current_volume, 1>>, row.avg_volume_prev_day))

\* current_volume == int(avg_volume_prev_day * spike_ratio), for a ratio
\* known to six decimals: volume / avg < ratio + 0.000001 and
\* ratio < (volume + 1) / avg
TruncatedVolume(row) ==
    /\ RatLt(<<row.current_volume, row.avg_volume_prev_day[1]>>,
             <<row.volume_spike_ratio[1] + 1, row.volume_spike_ratio[2]>>)
    /\ RatLt(row.volume_spike_ratio,
             <<row.current_volume + 1, row.avg_volume_prev_day[1]>>)

PositiveAverage(row) ==
    row.avg_volume_prev_day[1] > 0 /\ row.avg_volume_prev_day[2] > 0

LiveSuccesses(c) ==
    { s \in SeqRange(c.caps[1].fetched) : QuoteLoop(c.quote[s], 0).cr > 0 }

\* C11: get_market_caps takes its sample-table backfill branch exactly when
\* fewer than 5 symbols were resolved by a successful live quote lookup in
\* that run and more than 10 symbols were requested; values from the static
\* fallback table do not count as live successes.
C11_BackfillOnLiveFailures ==
    (cycle # <<>> /\ cycle[1].caps # <<>> /\ cycle[1].caps[1].fetched # <<>>) =>
        (cycle[1].caps[1].sample_used <=>
            (/\ Cardinality(LiveSuccesses(cycle[1])) < 5
             /\ Len(RequestedSymbols(cycle[1].vol[1].df)) > 10))

\* the value C12 names for requested symbol r of a cycle's cap stage
ValueByPrecedence(c, r) ==
    LET n == normalize_symbol(r)
        live == QuoteLoop(c.quote[n], 0).cr
    IN  IF live > 0 THEN live
        ELSE IF n \in DOMAIN FALLBACK_MARKET_CAPS THEN FALLBACK_MARKET_CAPS[n]
        ELSE IF c.caps[1].sample_used /\ n \in DOMAIN get_sample_market_caps
        THEN get_sample_market_caps[n]
        ELSE 0

\* C12: starting from an empty cache, the market cap returned for a symbol is
\* the converted live quote if one of its lookup attempts returned a positive
\* market cap; otherwise the static fallback-table value if the table knows
\* the symbol; otherwise the sample-table value if the backfill branch ran and
\* the sample table knows the symbol; otherwise 0.
C12_SourcePrecedence ==
    (/\ cycle # <<>> /\ cycle[1].caps # <<>>
     /\ cycle[1].cache.market_caps = EmptyMap) =>
        \A r \in SeqRange(RequestedSymbols(cycle[1].vol[1].df)) :
            cycle[1].caps[1].result[r] = ValueByPrecedence(cycle[1], r)

\* one call that resolved a symbol live, took another from the fallback table
\* after its lookups failed, returned 0 for a third, and ran the backfill branch
C12_Witness ==
    /\ cycle # <<>> /\ cycle[1].caps # <<>>
    /\ cycle[1].cache.market_caps = EmptyMap
    /\ cycle[1].caps[1].sample_used
    /\ \E r \in DOMAIN cycle[1].caps[1].result :
          /\ QuoteLoop(cycle[1].quote[normalize_symbol(r)], 0).cr > 0
          /\ cycle[1].caps[1].result[r] = QuoteLoop(cycle[1].quote[normalize_symbol(r)], 0).cr
    /\ \E r \in DOMAIN cycle[1].caps[1].result :
          /\ QuoteLoop(cycle[1].quote[normalize_symbol(r)], 0).cr = 0
          /\ normalize_symbol(r) \in DOMAIN FALLBACK_MARKET_CAPS
          /\ cycle[1].caps[1].result[r] = FALLBACK_MARKET_CAPS[normalize_symbol(r)]
    /\ \E r \in DOMAIN cycle[1].caps[1].result : cycle[1].caps[1].result[r] = 0

\* C13: after a get_market_caps call has returned, the normalized key of
\* every requested symbol is in the shared market-cap cache, with the value
\* the call returned for that symbol, a value of 0 included.
C13_ReturnedValuesCached ==
    c_call # <<>> =>
        \A r \in SeqRange(c_call[1].symbols) :
            /\ normalize_symbol(r) \in DOMAIN c_call[1].out.cache.market_caps
            /\ c_call[1].out.cache.market_caps[normalize_symbol(r)] = c_call[1].out.result[r]
            /\ c_call[1].out.cache = MARKET_CAP_CACHE

\* a call that returned 0 for a symbol it looked up and left that 0 in the cache
C13_Witness ==
    /\ c_call # <<>>
    /\ \E r \in SeqRange(c_call[1].symbols) :
          /\ c_call[1].out.result[r] = 0
          /\ Get(c_call[1].out.calls, normalize_symbol(r), 0) = max_retries
          /\ MARKET_CAP_CACHE.market_caps[normalize_symbol(r)] = 0

\* what the evaluator returns for symbol number k of a cycle, on its own
OwnResult(c, k) ==
    fetch_volume_data_for_symbol(c.symbols[k], HistAnswers(c.hist[c.symbols[k]]).prev,
                                 HistAnswers(c.hist[c.symbols[k]]).cur).rec

Contains(rows, row) == \E i \in 1..Len(rows) : rows[i] = row

\* C14 (as amended): the failure of one symbol (upstream exception, empty or
\* invalid data) aborts neither its batch nor the run: every symbol of every
\* batch is evaluated and returns what it returns on its own, and every
\* non-null result is among the records the run collected; these records are
\* the run's output when there are at least 5 of them (with fewer, the output
\* is the synthetic dataset).
C14_FailureIsolation ==
    (cycle # <<>> /\ cycle[1].vol # <<>>) =>
        LET c == cycle[1]
            v == c.vol[1]
        IN  /\ Len(v.per_item) = Len(c.symbols)
            /\ \A k \in 1..Len(c.symbols) :
                  /\ v.per_item[k] = OwnResult(c, k)
                  /\ v.per_item[k] # <<>> =>
                        /\ Contains(v.results, v.per_item[k][1])
                        /\ Len(v.results) >= 5 => Contains(v.df, v.per_item[k][1])

\* C14 as stated: every non-null result appears in the run's output
C14_ResultsInOutput ==
    (cycle # <<>> /\ cycle[1].vol # <<>>) =>
        \A k \in 1..Len(cycle[1].symbols) :
            cycle[1].vol[1].per_item[k] # <<>> =>
                Contains(cycle[1].vol[1].df, cycle[1].vol[1].per_item[k][1])

\* a run in which the upstream raised for the first symbol of a batch, gave
\* invalid data for the second, and the later symbols of that batch are in
\* the output
C14_Witness ==
    /\ cycle # <<>> /\ cycle[1].vol # <<>>
    /\ Len(cycle[1].symbols) >= 3
    /\ cycle[1].hist[cycle[1].symbols[1]] = "fail"
    /\ cycle[1].hist[cycle[1].symbols[2]] = "void"
    /\ cycle[1].vol[1].per_item[3] # <<>>
    /\ Contains(cycle[1].vol[1].df, cycle[1].vol[1].per_item[3][1])

\* the number of the batch that item x belongs to
BatchOf(x) == (x - 1) \div batch_size

\* C15: in a batched run no item of a later batch starts before every item
\* of the batches before it has completed, and at no time are more per-item
\* calls in flight than the worker bound (5) nor than the batch size (10).
C15_BatchesSequential ==
    /\ Cardinality(b_running) <= 5
    /\ Cardinality(b_running) <= 10
    /\ \A x \in b_running \cup b_done :
          \A y \in 1..b_total : BatchOf(y) < BatchOf(x) => y \in b_done

\* the second batch of a run with all five workers busy
C15_Witness ==
    /\ Cardinality(b_running) = 5
    /\ \A x \in b_running : BatchOf(x) = 1
    /\ Cardinality(b_done) = 10

\* C16: under any interleaving of the readers and writers of the market-cap
\* map, every key that was written is in the map with the value last written
\* to it, whatever was written to other keys meanwhile, and a read of a key
\* returns a value the key held between the start of the read and its end:
\* the previous value or a newly written one, never any other.
C16_RacingCacheAccess ==
    /\ \A k \in DOMAIN r_hist :
          r_hist[k] # <<>> =>
              k \in DOMAIN r_cache /\ r_cache[k] = r_hist[k][Len(r_hist[k])]
    /\ \A rd \in r_reads :
          \E m \in rd.from..rd.to : rd.value = r_hist[rd.key][m]

\* a read that raced a write of its key by the other run and returned the
\* new value, while both runs' writes to the two keys are in the map
C16_Witness ==
    /\ \E rd \in r_reads :
          /\ rd.from < rd.to
          /\ rd.value = r_hist[rd.key][rd.to]
          /\ rd.value # r_hist[rd.key][rd.from]
    /\ DOMAIN r_cache = RaceKeys
    /\ \A t \in DOMAIN r_run : r_run[t].written = Len(r_run[t].req)

\* C17: every get_nse_bse_symbols call returns a non-empty universe and does
\* not raise; a call made while the symbol cache is populated and younger
\* than 24 hours returns the cached universe and leaves the cache as it is;
\* any other call replaces the cache, timestamp and universe, with the
\* universe it returns.
C17_SymbolDirectory ==
    s_call # <<>> =>
        LET c == s_call[1]
        IN  /\ ~c.out.raised
            /\ c.out.universe # <<>>
            /\ SYMBOL_CACHE = c.out.cache
            /\ IF /\ c.before.timestamp # <<>> /\ c.before.symbols # <<>>
                  /\ c.now - c.before.timestamp[1] < 86400
               THEN c.out.universe = c.before.symbols[1] /\ c.out.cache = c.before
               ELSE c.out.cache = [timestamp |-> <<c.now>>, symbols |-> <<c.out.universe>>]

\* a call that found a cache of exactly 24 hours before and replaced it
C17_Witness ==
    /\ s_call # <<>>
    /\ s_call[1].before.timestamp # <<>>
    /\ s_call[1].now - s_call[1].before.timestamp[1] = 86400
    /\ s_call[1].out.cache.timestamp = <<s_call[1].now>>
    /\ s_call[1].out.cache.symbols # s_call[1].before.symbols

\* C18: what is written back for a symbol the caller passes in, one that
\* normalization rewrites (ULTRACEM.NS) included, is keyed by the symbol the
\* caller passed, not by the normalized ticker: the record that
\* fetch_volume_data_for_symbol returns carries the caller's symbol, and the
\* frame that get_market_caps returns has the caller's symbols as its index.
C18_KeyedByRequestedSymbol ==
    /\ (e_out # <<>> /\ e_out[1].rec # <<>>) =>
          e_out[1].rec[1].symbol = e_in[1].symbol
    /\ c_call # <<>> =>
          DOMAIN c_call[1].out.result = SeqRange(c_call[1].symbols)

\* C19: normalize_symbol is idempotent on every symbol of the mapping table,
\* the reliable-symbol list and the sample universe:
\* normalize_symbol(normalize_symbol(s)) = normalize_symbol(s).
C19_NormalizeIdempotent ==
    (n_in \in KnownSymbols /\ Len(n_out) >= 2) => n_out[2] = n_out[1]

\* the symbol that normalization rewrites, normalized twice
C19_Witness ==
    /\ n_in = "ULTRACEM.NS"
    /\ Len(n_out) >= 2
    /\ n_out[1] = "ULTRACEMCO.NS" /\ n_out[2] = "ULTRACEMCO.NS"

\* C20: in a cycle whose volume frame holds no row with a spike ratio of at
\* least 10, get_market_caps is not called, no quote is asked for (the shared
\* market cap cache and its timestamp are as they were before the cycle) and
\* the stored ScreenResult is empty.
C20_NoSpikeNoLookup ==
    (/\ cycle # <<>>
     /\ cycle[1].vol # <<>>
     /\ \A i \in 1..Len(cycle[1].vol[1].df) : ~SpikeKeep(cycle[1].vol[1].df[i]))
        => /\ cycle[1].caps = <<>>
           /\ MARKET_CAP_CACHE = cycle[1].cache
           /\ session.filtered_stocks = <<>>

\* a cycle over at least five live records none of which spikes, run while
\* the market cap cache is empty
C20_Witness ==
    /\ cycle # <<>>
    /\ cycle[1].vol # <<>>
    /\ ~cycle[1].vol[1].sample_used
    /\ Len(cycle[1].vol[1].df) >= MinLiveRecords
    /\ \A i \in 1..Len(cycle[1].vol[1].df) : ~SpikeKeep(cycle[1].vol[1].df[i])
    /\ cycle[1].outcome = "no_spike"
    /\ session.filtered_stocks = <<>>

\* C21: a refresh cycle that fails outright (no universe, or no volume data)
\* leaves the stored ScreenResult and the last-update time as they were; a
\* cycle that completes stores exactly its own result in place of the earlier
\* one and sets the last-update time to the cycle's time.
C21_StoredResult ==
    cycle # <<>> =>
        IF cycle[1].outcome \in {"no_symbols", "no_volume"}
        THEN /\ session.filtered_stocks = cycle[1].before.filtered_stocks
             /\ session.last_update_time = cycle[1].before.last_update_time
        ELSE /\ session.filtered_stocks = FormatRows(cycle[1].ranked)
             /\ session.last_update_time = <<clock>>

\* a completed cycle with rows of its own, run on a session that held the
\* result and the time of an earlier cycle
C21_Witness ==
    /\ cycle # <<>> /\ cycle[1].outcome = "complete"
    /\ cycle[1].before.filtered_stocks = EarlierResult
    /\ cycle[1].before.last_update_time = <<0>>
    /\ cycle[1].ranked # <<>>
    /\ session.filtered_stocks = FormatRows(cycle[1].ranked)
    /\ session.last_update_time = <<RefreshIntervalSeconds>>

\* the time of day of an is_market_open argument, in whole seconds
SecondsOfDay(time) == time[1] * 3600 + time[2] * 60 + time[3]

\* C22: is_market_open(t) is true exactly when t is on Monday to Friday and
\* its time of day is between 09:15:00 and 15:30:00, both included: false on
\* Saturday and Sunday, false at 09:14:59 and 15:30:01, true at 09:15:00 and
\* 15:30:00.
C22_MarketOpen ==
    m_out # <<>> =>
        m_out[1] =
            (/\ m_in[1].weekday \in 0..4
             /\ SecondsOfDay(m_in[1].time) >= 9 * 3600 + 15 * 60
             /\ \/ SecondsOfDay(m_in[1].time) < 15 * 3600 + 30 * 60
                \/ /\ SecondsOfDay(m_in[1].time) = 15 * 3600 + 30 * 60
                   /\ m_in[1].time[4] = 0)

\* the call at 15:30:00 on a Friday, answered true
C22_Witness ==
    /\ m_in = <<[weekday |-> 4, time |-> <<15, 30, 0, 0>>]>>
    /\ m_out = <<TRUE>>

\* C23: for every current date (any day of the week) the walk ends, and the
\* previous day it ends with is a Monday-to-Friday date strictly before the
\* current date with no Monday-to-Friday date strictly between the two.
C23_PreviousBusinessDay ==
    /\ [](w_pc = "done" =>
            /\ Weekday(w_today - w_sub) \in 0..4
            /\ w_today - w_sub < w_today
            /\ \A d \in (w_today - w_sub + 1)..(w_today - 1) : Weekday(d) \in {5, 6})
    /\ <>(w_pc = "done")

\* the walk from a Monday, ended on the Friday three days before
C23_Witness ==
    /\ w_pc = "done"
    /\ Weekday(w_today) = 0
    /\ w_sub = 3

\* the previous-session candles of the call in e_in that lie inside the
\* opening window, 09:15 to 11:00 as minutes of the day, in time order
OpeningWindowCandles ==
    LET prev_day_data == get_history_with_fallback(e_in[1].prev).data
        inside(row) == row.t >= 9 * 60 + 15 /\ row.t <= 11 * 60
    IN  SelectSeq(prev_day_data, inside)

\* C24: the baseline of every emitted live VolumeRecord is the mean over the
\* earliest previous-session candles inside the opening window 09:15 to
\* 11:00, at least 3 and at most 10 of them; a symbol with fewer than 3
\* candles inside the window yields no record.
C24_BaselineInsideWindow ==
    e_out # <<>> =>
        /\ e_out[1].rec # <<>> =>
              /\ Len(OpeningWindowCandles) >= 3
              /\ LET k == Min(Len(OpeningWindowCandles), 10)
                 IN  RatEq(e_out[1].rec[1].avg_volume_prev_day,
                           <<SumVolume(SubSeq(OpeningWindowCandles, 1, k)), k>>)
        /\ Len(OpeningWindowCandles) < 3 => e_out[1].rec = <<>>

\* C25: get_volume_data never returns an empty table: for every universe, the
\* empty one and one whose every upstream call fails included, the returned
\* frame has at least one row, so the test of app.py line 64 never holds.
C25_VolumeNeverEmpty ==
    v_out # <<>> => Len(v_out[1].df) >= 1

\* the call for the empty universe, and the call for a universe of 30 symbols
\* whose every upstream call fails: both answered with rows
C25_Witness ==
    /\ v_out # <<>>
    /\ \/ v_in[1].symbols = <<>>
       \/ /\ Len(v_in[1].symbols) = 30
          /\ \A sym \in SeqRange(v_in[1].symbols) : v_in[1].hist[sym] \in {"fail", "void"}
    /\ v_out[1].results = <<>>
    /\ v_out[1].sample_used
    /\ Len(v_out[1].df) = 21

\* the rows of the cycle's volume frame that meet both thresholds, the market
\* cap being the one the cycle's lookup returned
QualifyingRows(c) ==
    { c.vol[1].df[i] : i \in { j \in 1..Len(c.vol[1].df) :
        /\ RatLeq(<<10, 1>>, c.vol[1].df[j].volume_spike_ratio)
        /\ c.caps[1].result[c.vol[1].df[j].symbol] > 1000 } }

\* the symbols of the rows of a stored result
ResultSymbols(rows) == { rows[i].symbol : i \in 1..Len(rows) }

\* C26: the ScreenResult of a completed cycle is the top of the ranking: a
\* row that meets both thresholds and is left out has a current volume no
\* larger than that of any row of the result, and when 10 or fewer rows
\* qualify all of them are in the result.
C26_TopOfRanking ==
    (cycle # <<>> /\ cycle[1].outcome = "complete") =>
        LET rows == session.filtered_stocks
            left_out == { q \in QualifyingRows(cycle[1]) : q.symbol \notin ResultSymbols(rows) }
        IN  /\ \A q \in left_out : \A i \in 1..Len(rows) :
                  q.current_volume <= rows[i].current_volume
            /\ Cardinality(QualifyingRows(cycle[1])) <= 10 => left_out = {}

\* a completed cycle in which more than 10 rows qualified: 10 are stored and
\* the others are left out
C26_Witness ==
    /\ cycle # <<>> /\ cycle[1].outcome = "complete"
    /\ Cardinality(QualifyingRows(cycle[1])) > 10
    /\ Len(session.filtered_stocks) = 10
    /\ \E q \in QualifyingRows(cycle[1]) : q.symbol \notin ResultSymbols(session.filtered_stocks)

\* C27: within one get_market_caps call each distinct normalized symbol is
\* resolved upstream at most once, that is with at most 3 quote lookups, also
\* when the request holds the symbol twice or holds two symbols that normalize
\* to the same ticker and both fall in one batch.
C27_ResolvedOncePerCall ==
    c_call # <<>> =>
        \A s \in DOMAIN c_call[1].out.calls : c_call[1].out.calls[s] <= max_retries

=============================================================================
